---- MODULE Spec2Model ----
(***************************************************************************)
(* Immutable radix tree (go-immutable-radix): the node model, the          *)
(* copy-on-write transaction engine and the iterators, as a state machine  *)
(* over an explicit heap of nodes and edge arrays.                         *)
(*                                                                         *)
(* Pointers are heap indices (0 is nil).  A Go slice of edges is a record  *)
(* [arr, len]: the backing array and the length; the capacity is the       *)
(* length of the backing array.  Bytes are small naturals.                 *)
(***************************************************************************)
EXTENDS Naturals, Sequences, FiniteSets, TLC

\* ------------------------------------------------------------ bounds
NumLabels  == 2     \* bytes used after the first byte of a key: 1..NumLabels
RootLabels == 1     \* bytes used as the first byte of a key: 1..RootLabels
MaxLen     == 3     \* longest key
MaxBase    == 3     \* keys stored by the first transaction
MaxOps     == 2     \* Insert/Delete calls after the first commit
MaxTxns    == 2     \* transactions opened after the first commit

Labels == 1..NumLabels
NilVal == 0

RECURSIVE SeqsUpTo(_)
SeqsUpTo(n) ==
  IF n = 0 THEN {<<>>}
  ELSE LET S == SeqsUpTo(n - 1)
       IN S \cup {Append(s, b) : s \in {t \in S : Len(t) = n - 1},
                                 b \in IF n = 1 THEN 1..RootLabels ELSE Labels}

Keys == SeqsUpTo(MaxLen)

\* ------------------------------------------------------------ bytes
Drop(s, n) == SubSeq(s, n + 1, Len(s))          \* s[n:]
Take(s, n) == SubSeq(s, 1, n)                   \* s[:n]

\* bytes.HasPrefix(s, p)
HasPrefix(s, p) == Len(p) <= Len(s) /\ Take(s, Len(p)) = p

\* bytes.Compare(a, b): -1, 0, 1 coded as "lt", "eq", "gt"
RECURSIVE Compare(_, _)
Compare(a, b) ==
  IF Len(a) = 0 /\ Len(b) = 0 THEN "eq"
  ELSE IF Len(a) = 0 THEN "lt"
  ELSE IF Len(b) = 0 THEN "gt"
  ELSE IF a[1] < b[1] THEN "lt"
  ELSE IF a[1] > b[1] THEN "gt"
  ELSE Compare(Tail(a), Tail(b))

Min2(a, b) == IF a < b THEN a ELSE b

RECURSIVE lpLoop(_, _, _, _)
lpLoop(k1, k2, i, l) ==
  IF i < l /\ k1[i + 1] = k2[i + 1] THEN lpLoop(k1, k2, i + 1, l) ELSE i

\* faulty variant: the common prefix taken as the shorter length, no compare
longestPrefix_NoCompare(k1, k2) == Min2(Len(k1), Len(k2))

longestPrefix(k1, k2) == lpLoop(k1, k2, 0, Min2(Len(k1), Len(k2)))

\* faulty variant: the second slice comes first
concat_Swapped(a, b) == b \o a

concat(a, b) == a \o b

\* ------------------------------------------------------------ node model
NoLeaf   == [has |-> FALSE, key |-> <<>>, val |-> NilVal]     \* leafNode{}
ZeroEdge == [label |-> 0, node |-> 0]                         \* edge{}
NilSlice == [arr |-> 0, len |-> 0]

leafNode(k, v) == [has |-> TRUE, key |-> k, val |-> v]

Node(rev, lf, pfx, es) ==
  [revision |-> rev, leaf |-> lf, prefix |-> pfx, edges |-> es]

EmptyHeap == [nodes |-> <<>>, arrs |-> <<>>]

Cap(h, sl) == IF sl.arr = 0 THEN 0 ELSE Len(h.arrs[sl.arr])

\* the edges a slice shows
SliceSeq(h, sl) == [i \in 1..sl.len |-> h.arrs[sl.arr][i]]

EdgesOf(h, id) == SliceSeq(h, h.nodes[id].edges)

\* faulty variant: a node is a leaf when its value is not nil
isLeaf_ByValue(h, id) == h.nodes[id].leaf.val # NilVal

isLeaf(h, id) == h.nodes[id].leaf.has

\* value of the generic node: the stored value, nil when the node is no leaf
ValueOf(h, id) ==
  IF h.nodes[id].leaf.has THEN h.nodes[id].leaf.val ELSE NilVal

AllocNode(h, nd) ==
  [h |-> [h EXCEPT !.nodes = Append(@, nd)], id |-> Len(h.nodes) + 1]

Pad(es, cap) == [i \in 1..cap |-> IF i <= Len(es) THEN es[i] ELSE ZeroEdge]

\* make([]edge, len(es), cap) followed by copy
AllocArr(h, es, cap) ==
  [h |-> [h EXCEPT !.arrs = Append(@, Pad(es, cap))],
   sl |-> [arr |-> Len(h.arrs) + 1, len |-> Len(es)]]

\* binary search: the number of edges with a label below `label`
RECURSIVE searchLoop(_, _, _, _)
searchLoop(es, label, i, j) ==
  IF i < j
  THEN LET hh == (i + j) \div 2
       IN IF es[hh + 1].label < label
          THEN searchLoop(es, label, hh + 1, j)
          ELSE searchLoop(es, label, i, hh)
  ELSE i

search(es, label) == searchLoop(es, label, 0, Len(es))

\* (idx, node); node = 0 when there is no such edge (idx is -1 in the code)
getEdge(h, id, label) ==
  LET es  == EdgesOf(h, id)
      idx == search(es, label)
  IN IF idx < Len(es) /\ es[idx + 1].label = label
     THEN [idx |-> idx, node |-> es[idx + 1].node]
     ELSE [idx |-> 0, node |-> 0]

getLowerBoundEdge(h, id, label) ==
  LET es  == EdgesOf(h, id)
      idx == search(es, label)
  IN IF idx < Len(es)
     THEN [idx |-> idx, node |-> es[idx + 1].node]
     ELSE [idx |-> 0, node |-> 0]

\* growth of append on a full slice
GrowCap(cap) == IF cap = 0 THEN 1 ELSE 2 * cap

InsertAt(es, idx, e) ==
  [i \in 1..(Len(es) + 1) |->
     IF i <= idx THEN es[i] ELSE IF i = idx + 1 THEN e ELSE es[i - 1]]

RemoveAt(es, idx) ==
  [i \in 1..(Len(es) - 1) |-> IF i <= idx THEN es[i] ELSE es[i + 1]]

\* overwrite the first Len(es) slots of array a
WriteArr(h, a, es) ==
  [h EXCEPT !.arrs[a] =
     [i \in 1..Len(@) |-> IF i <= Len(es) THEN es[i] ELSE @[i]]]

\* faulty variant: the edge goes to the end of the slice
addEdge_Append(h, id, e) ==
  LET sl  == h.nodes[id].edges
      es  == SliceSeq(h, sl)
      res == Append(es, e)
  IN IF sl.len < Cap(h, sl)
     THEN [WriteArr(h, sl.arr, res) EXCEPT !.nodes[id].edges.len = sl.len + 1]
     ELSE LET a == AllocArr(h, res, GrowCap(Cap(h, sl)))
          IN [a.h EXCEPT !.nodes[id].edges = a.sl]

addEdge(h, id, e) ==
  LET sl  == h.nodes[id].edges
      es  == SliceSeq(h, sl)
      idx == search(es, e.label)
      res == InsertAt(es, idx, e)
  IN IF sl.len < Cap(h, sl)
     THEN \* append writes into the spare capacity of the same array
          [WriteArr(h, sl.arr, res) EXCEPT !.nodes[id].edges.len = sl.len + 1]
     ELSE LET a == AllocArr(h, res, GrowCap(Cap(h, sl)))
          IN [a.h EXCEPT !.nodes[id].edges = a.sl]

\* [h, ok]: ok = FALSE is panic("replacing missing edge")
\* faulty variant: the last edge of the node is not looked at
replaceEdge_NotLast(h, id, e) ==
  LET sl  == h.nodes[id].edges
      es  == SliceSeq(h, sl)
      idx == search(es, e.label)
  IN IF idx + 1 < sl.len /\ es[idx + 1].label = e.label
     THEN [h |-> [h EXCEPT !.arrs[sl.arr][idx + 1].node = e.node], ok |-> TRUE]
     ELSE [h |-> h, ok |-> FALSE]

\* Node.replaceEdge; ok = FALSE is panic("replacing missing edge")
replaceEdge(h, id, e) ==
  LET sl  == h.nodes[id].edges
      es  == SliceSeq(h, sl)
      idx == search(es, e.label)
  IN IF idx < sl.len /\ es[idx + 1].label = e.label
     THEN [h |-> [h EXCEPT !.arrs[sl.arr][idx + 1].node = e.node], ok |-> TRUE]
     ELSE [h |-> h, ok |-> FALSE]

\* faulty variant: the edge stays
delEdge_Keep(h, id, label) == h

delEdge(h, id, label) ==
  LET sl  == h.nodes[id].edges
      es  == SliceSeq(h, sl)
      idx == search(es, label)
  IN IF idx < sl.len /\ es[idx + 1].label = label
     THEN [WriteArr(h, sl.arr, Append(RemoveAt(es, idx), ZeroEdge))
             EXCEPT !.nodes[id].edges.len = sl.len - 1]
     ELSE h

\* Node.Get: [val, ok]
RECURSIVE GetLoop(_, _, _)
GetLoop(h, id, srch) ==
  IF Len(srch) = 0
  THEN IF isLeaf(h, id)
       THEN [val |-> h.nodes[id].leaf.val, ok |-> TRUE]
       ELSE [val |-> NilVal, ok |-> FALSE]
  ELSE LET c == getEdge(h, id, srch[1]).node
       IN IF c = 0 THEN [val |-> NilVal, ok |-> FALSE]
          ELSE IF ~HasPrefix(srch, h.nodes[c].prefix)
               THEN [val |-> NilVal, ok |-> FALSE]
               ELSE GetLoop(h, c, Drop(srch, Len(h.nodes[c].prefix)))

Get(h, id, k) == GetLoop(h, id, k)


\* ------------------------------------------------------------ transactions
\* faulty variant: every node is written in place
writeNode_InPlace(h, rev, id) == [h |-> h, id |-> id]

\* faulty variant: the copy keeps the edge array of the node it copies
writeNode_SharedEdges(h, rev, id) ==
  LET n == h.nodes[id]
  IN IF n.revision = rev
     THEN [h |-> h, id |-> id]
     ELSE AllocNode(h, Node(rev, n.leaf, n.prefix, n.edges))

\* faulty variant: a node without edges is written in place
writeNode_LeafInPlace(h, rev, id) ==
  LET n == h.nodes[id]
  IN IF n.revision = rev \/ n.edges.len = 0
     THEN [h |-> h, id |-> id]
     ELSE LET a  == AllocArr(h, SliceSeq(h, n.edges), n.edges.len + 2)
          IN AllocNode(a.h, Node(rev, n.leaf, n.prefix, a.sl))

\* Txn.writeNode: [h, id]
writeNode(h, rev, id) ==
  LET n == h.nodes[id]
  IN IF n.revision = rev
     THEN [h |-> h, id |-> id]
     ELSE IF n.edges.len # 0
          THEN LET a  == AllocArr(h, SliceSeq(h, n.edges), n.edges.len + 2)
               IN AllocNode(a.h, Node(rev, n.leaf, n.prefix, a.sl))
          ELSE AllocNode(h, Node(rev, n.leaf, n.prefix, NilSlice))

\* faulty variant: a node left with one edge and no value stays as it is
mergeChild_Skip(h, id) == h

\* faulty variant: a child that has edges of its own is not merged
mergeChild_OnlyLeafChild(h, id) ==
  LET n     == h.nodes[id]
      child == h.nodes[SliceSeq(h, n.edges)[1].node]
  IN IF child.edges.len # 0 THEN h
     ELSE [h EXCEPT !.nodes[id] = Node(n.revision, child.leaf,
                                       concat(n.prefix, child.prefix), NilSlice)]

\* faulty variant: the merged node takes the edge slice of the child as it is
mergeChild_AliasEdges(h, id) ==
  LET n     == h.nodes[id]
      child == h.nodes[SliceSeq(h, n.edges)[1].node]
  IN [h EXCEPT !.nodes[id] = Node(n.revision, child.leaf,
                                  concat(n.prefix, child.prefix), child.edges)]

\* Txn.mergeChild
mergeChild(h, id) ==
  LET n     == h.nodes[id]
      child == h.nodes[SliceSeq(h, n.edges)[1].node]
      pfx   == concat(n.prefix, child.prefix)
  IN IF child.edges.len # 0
     THEN LET a == AllocArr(h, SliceSeq(h, child.edges), child.edges.len)
          IN [a.h EXCEPT !.nodes[id] = Node(n.revision, child.leaf, pfx, a.sl)]
     ELSE [h EXCEPT !.nodes[id] = Node(n.revision, child.leaf, pfx, NilSlice)]

\* a pointer to a *Node variable: &t.root (arr = 0) or &edges[idx].node
RootSlot == [arr |-> 0, idx |-> 0]

Deref(h, root, slot) ==
  IF slot.arr = 0 THEN root ELSE h.arrs[slot.arr][slot.idx + 1].node

\* faulty variant: Insert reports no previous value
InsRes_NoOld(h, root, val, ok, fault) ==
  [h |-> h, root |-> root, val |-> NilVal, ok |-> FALSE, fault |-> fault]

InsRes(h, root, val, ok, fault) ==
  [h |-> h, root |-> root, val |-> val, ok |-> ok, fault |-> fault]

\* faulty variant: the old child keeps its whole prefix
InsertSplit_NoTrim(h, rev, root, nc, child, k, v, srch, commonPrefix) ==
  LET s   == AllocNode(h, Node(rev, NoLeaf, Take(srch, commonPrefix), NilSlice))
      r   == replaceEdge(s.h, nc, [label |-> srch[1], node |-> s.id])
      w   == writeNode(r.h, rev, child)
      mc  == w.id
      h1  == addEdge(w.h, s.id,
                     [label |-> w.h.nodes[mc].prefix[commonPrefix + 1],
                      node |-> mc])
      h2  == h1
      lf  == leafNode(k, v)
      rest == Drop(srch, commonPrefix)
  IN IF ~r.ok THEN InsRes(h, root, NilVal, FALSE, "replacing missing edge")
     ELSE IF Len(rest) = 0
     THEN InsRes([h2 EXCEPT !.nodes[s.id].leaf = lf], root, NilVal, FALSE, "none")
     ELSE LET l == AllocNode(h2, Node(rev, lf, rest, NilSlice))
          IN InsRes(addEdge(l.h, s.id, [label |-> rest[1], node |-> l.id]),
                    root, NilVal, FALSE, "none")

\* the split branch of Txn.Insert (nc owns the edge to child)
InsertSplit(h, rev, root, nc, child, k, v, srch, commonPrefix) ==
  LET s   == AllocNode(h, Node(rev, NoLeaf, Take(srch, commonPrefix), NilSlice))
      r   == replaceEdge(s.h, nc, [label |-> srch[1], node |-> s.id])
      w   == writeNode(r.h, rev, child)
      mc  == w.id
      h1  == addEdge(w.h, s.id,
                     [label |-> w.h.nodes[mc].prefix[commonPrefix + 1],
                      node |-> mc])
      h2  == [h1 EXCEPT !.nodes[mc].prefix = Drop(@, commonPrefix)]
      lf  == leafNode(k, v)
      rest == Drop(srch, commonPrefix)
  IN IF ~r.ok THEN InsRes(h, root, NilVal, FALSE, "replacing missing edge")
     ELSE IF Len(rest) = 0
     THEN InsRes([h2 EXCEPT !.nodes[s.id].leaf = lf], root, NilVal, FALSE, "none")
     ELSE LET l == AllocNode(h2, Node(rev, lf, rest, NilSlice))
          IN InsRes(addEdge(l.h, s.id, [label |-> rest[1], node |-> l.id]),
                    root, NilVal, FALSE, "none")

RECURSIVE InsertLoop(_, _, _, _, _, _, _)
InsertLoop(h, rev, root, slot, k, v, srch) ==
  LET w     == writeNode(h, rev, Deref(h, root, slot))
      nc    == w.id
      \* *n = nc
      h1    == IF slot.arr = 0 THEN w.h
               ELSE [w.h EXCEPT !.arrs[slot.arr][slot.idx + 1].node = nc]
      root1 == IF slot.arr = 0 THEN nc ELSE root
  IN IF Len(srch) = 0
     THEN InsRes([h1 EXCEPT !.nodes[nc].leaf = leafNode(k, v)], root1,
                 h1.nodes[nc].leaf.val, h1.nodes[nc].leaf.has, "none")
     ELSE LET e == getEdge(h1, nc, srch[1])
          IN IF e.node = 0
             THEN LET l == AllocNode(h1, Node(rev, leafNode(k, v), srch, NilSlice))
                  IN InsRes(addEdge(l.h, nc, [label |-> srch[1], node |-> l.id]),
                            root1, NilVal, FALSE, "none")
             ELSE LET commonPrefix ==
                        longestPrefix(srch, h1.nodes[e.node].prefix)
                  IN IF commonPrefix = Len(h1.nodes[e.node].prefix)
                     THEN InsertLoop(h1, rev, root1,
                                     [arr |-> h1.nodes[nc].edges.arr, idx |-> e.idx],
                                     k, v, Drop(srch, commonPrefix))
                     ELSE InsertSplit(h1, rev, root1, nc, e.node, k, v, srch,
                                      commonPrefix)

\* Txn.Insert on a transaction [revision, root]
Insert(h, t, k, v) == InsertLoop(h, t.revision, t.root, RootSlot, k, v, k)

\* faulty variant: delete hands back no value
DelRes_NoValue(h, node, val, merged) ==
  [h |-> h, node |-> node, val |-> NilVal, merged |-> merged]

\* merged records that mergeChild ran (bookkeeping)
DelRes(h, node, val, merged) ==
  [h |-> h, node |-> node, val |-> val, merged |-> merged]

\* Txn.delete: node = 0 is the nil result (nothing deleted)
RECURSIVE delete(_, _, _, _)
delete(h, t, n, srch) ==
  IF Len(srch) = 0
  THEN IF ~h.nodes[n].leaf.has THEN DelRes(h, 0, NilVal, FALSE)
       ELSE LET w  == writeNode(h, t.revision, n)
                nc == w.id
                h1 == [w.h EXCEPT !.nodes[nc].leaf = NoLeaf]
                mg == n # t.root /\ h1.nodes[nc].edges.len = 1
            IN DelRes(IF mg THEN mergeChild(h1, nc) ELSE h1,
                      nc, w.h.nodes[nc].leaf.val, mg)
  ELSE LET label == srch[1]
           e     == getEdge(h, n, label)
       IN IF e.node = 0 \/ ~HasPrefix(srch, h.nodes[e.node].prefix)
          THEN DelRes(h, 0, NilVal, FALSE)
          ELSE LET d == delete(h, t, e.node,
                               Drop(srch, Len(h.nodes[e.node].prefix)))
               IN IF d.node = 0 THEN DelRes(h, 0, NilVal, FALSE)
                  ELSE LET w  == writeNode(d.h, t.revision, n)
                           nc == w.id
                       IN IF ~w.h.nodes[d.node].leaf.has
                             /\ w.h.nodes[d.node].edges.len = 0
                          THEN LET h1 == delEdge(w.h, nc, label)
                                   mg == /\ n # t.root
                                         /\ h1.nodes[nc].edges.len = 1
                                         /\ ~h1.nodes[nc].leaf.has
                               IN DelRes(IF mg THEN mergeChild(h1, nc) ELSE h1,
                                         nc, d.val, d.merged \/ mg)
                          ELSE DelRes([w.h EXCEPT
                                         !.arrs[w.h.nodes[nc].edges.arr][e.idx + 1].node
                                            = d.node],
                                      nc, d.val, d.merged)

\* faulty variant: the root is copied before the key is looked up
Delete_CopyRoot(h, t, k) ==
  LET w == writeNode(h, t.revision, t.root)
      d == delete(w.h, [t EXCEPT !.root = w.id], w.id, k)
  IN [h |-> d.h, root |-> IF d.node # 0 THEN d.node ELSE w.id,
      val |-> d.val, ok |-> d.node # 0, merged |-> d.merged]

\* faulty variant: delete is not told which node is the root
Delete_RootUnknown(h, t, k) ==
  LET d == delete(h, [t EXCEPT !.root = 0], t.root, k)
  IN [h |-> d.h, root |-> IF d.node # 0 THEN d.node ELSE t.root,
      val |-> d.val, ok |-> d.node # 0, merged |-> d.merged]

\* Txn.Delete: [h, root, val, ok]
Delete(h, t, k) ==
  LET d == delete(h, t, t.root, k)
  IN [h |-> d.h, root |-> IF d.node # 0 THEN d.node ELSE t.root,
      val |-> d.val, ok |-> d.node # 0, merged |-> d.merged]

\* a []byte argument: the nil slice, or a slice holding bytes
NilKey == [isNil |-> TRUE, bytes |-> <<>>]

Bytes(k) == [isNil |-> FALSE, bytes |-> k]

GoKeys == {NilKey} \cup {Bytes(k) : k \in Keys}

\* faulty variant: a nil key stays nil
NormKey_KeepNil(gk) == gk

\* if k == nil { k = []byte{} }
NormKey(gk) == IF gk.isNil THEN Bytes(<<>>) ELSE gk

\* Txn.Insert called with a []byte: the leaf is leafNode{key: k, val: v},
\* and isLeaf tests key != nil
TxnInsert(h, t, gk, v) ==
  LET k == NormKey(gk)
      r == Insert(h, t, k.bytes, v)
  IN IF k.isNil THEN [r EXCEPT !.h.nodes[r.root].leaf.has = FALSE] ELSE r

\* Txn.Delete called with a []byte
TxnDelete(h, t, gk) == Delete(h, t, NormKey(gk).bytes)

\* Txn.Get called with a []byte: len(k) == 0 for the nil slice
TxnGet(h, t, gk) == Get(h, t.root, gk.bytes)

\* faulty variant: the transaction takes the revision of the root
NewTxn_KeepRevision(h, root) == [revision |-> h.nodes[root].revision, root |-> root]

\* NewTxn
NewTxn(h, root) == [revision |-> h.nodes[root].revision + 1, root |-> root]

\* ------------------------------------------------------------ observation
\* CopyTree: the tree below a node as a set of entries, one per node, keyed
\* by the edge labels leading to it
RECURSIVE CopyTree(_, _, _)
CopyTree(h, id, path) ==
  LET es == EdgesOf(h, id)
  IN {[path |-> path, revision |-> h.nodes[id].revision,
       leaf |-> h.nodes[id].leaf, prefix |-> h.nodes[id].prefix,
       labels |-> [i \in 1..Len(es) |-> es[i].label]]}
     \cup UNION {CopyTree(h, es[i].node, Append(path, es[i].label))
                 : i \in 1..Len(es)}

GetAll(h, id) == [k \in Keys |-> Get(h, id, k)]

\* the nodes below a node, each with the concatenation of the prefixes on
\* the way to it (acc: the concatenation above the node)
RECURSIVE PathsOf(_, _, _)
PathsOf(h, id, acc) ==
  LET here == acc \o h.nodes[id].prefix
  IN {[node |-> id, key |-> here]}
       \cup UNION {PathsOf(h, EdgesOf(h, id)[i].node, here)
                     : i \in 1..Len(EdgesOf(h, id))}

\* the nodes of the tree below a node
RECURSIVE NodesOf(_, _)
NodesOf(h, id) ==
  {id} \cup UNION {NodesOf(h, EdgesOf(h, id)[i].node) : i \in 1..Len(EdgesOf(h, id))}

\* the copy of a tree compared in prefixes, values and edges: CopyTree
\* without the revisions
Shape(h, id) ==
  {[path |-> e.path, leaf |-> e.leaf, prefix |-> e.prefix, labels |-> e.labels]
     : e \in CopyTree(h, id, <<>>)}

Absent == [val |-> NilVal, ok |-> FALSE]

KeyLess(a, b) == Compare(a, b) = "lt"

MinKey(S) == CHOOSE k \in S : \A j \in S : j = k \/ KeyLess(k, j)

RECURSIVE SortKeys(_)
SortKeys(S) ==
  IF S = {} THEN <<>> ELSE <<MinKey(S)>> \o SortKeys(S \ {MinKey(S)})

\* ------------------------------------------------------------ iterators
\* A stack frame is a slice of edges: a window [off, off+len) on the array
\* of a node, or (arr = 0) the one-edge literal edges{edge{node: n}}.
LitFrame(n) == [arr |-> 0, off |-> 0, len |-> 1, node |-> n]

NodeFrame(h, id) ==
  [arr |-> h.nodes[id].edges.arr, off |-> 0, len |-> h.nodes[id].edges.len,
   node |-> 0]

\* last[i].node
FrameNode(h, f, i) ==
  IF f.arr = 0 THEN f.node ELSE h.arrs[f.arr][f.off + i + 1].node

\* last[k:]
FrameFrom(f, k) == [f EXCEPT !.off = @ + k, !.len = @ - k]

\* last[:k]
FrameUpTo(f, k) == [f EXCEPT !.len = k]

\* Node.Iterator: &Iterator{node: n}; the stack is nil
Iterator(n) == [node |-> n, stack |-> <<>>, stackNil |-> TRUE, skip |-> 0]

\* faulty variant: an empty stack is taken for a stack never made
InitStack_WhenEmpty(it) ==
  IF Len(it.stack) = 0 /\ it.node # 0
  THEN [it EXCEPT !.stack = <<LitFrame(it.node)>>, !.stackNil = FALSE]
  ELSE it

\* "Initialize our stack if needed"
InitStack(it) ==
  IF it.stackNil /\ it.node # 0
  THEN [it EXCEPT !.stack = <<LitFrame(it.node)>>, !.stackNil = FALSE]
  ELSE it

RECURSIVE NextLoop(_, _)
\* faulty variant: the edges of a node that carries a value are not pushed
NextLoop_NoDescend(h, it) ==
  IF Len(it.stack) = 0 THEN [it |-> it, node |-> 0]
  ELSE LET n     == Len(it.stack)
           lastf == it.stack[n]
           elem  == FrameNode(h, lastf, 0)
           st1   == IF lastf.len > 1
                    THEN [it.stack EXCEPT ![n] = FrameFrom(lastf, 1)]
                    ELSE Take(it.stack, n - 1)
           it2   == [it EXCEPT !.stack = st1]
       IN IF ValueOf(h, elem) # NilVal
          THEN [it |-> it2, node |-> elem]
          ELSE NextLoop(h, IF h.nodes[elem].edges.len > 0
                           THEN [it2 EXCEPT !.stack = Append(@, NodeFrame(h, elem))]
                           ELSE it2)

\* Iterator.Next: [it, node]; node = 0 is the nil result
NextLoop(h, it) ==
  IF Len(it.stack) = 0 THEN [it |-> it, node |-> 0]
  ELSE LET n     == Len(it.stack)
           lastf == it.stack[n]
           elem  == FrameNode(h, lastf, 0)
           st1   == IF lastf.len > 1
                    THEN [it.stack EXCEPT ![n] = FrameFrom(lastf, 1)]
                    ELSE Take(it.stack, n - 1)
           st2   == IF h.nodes[elem].edges.len > 0
                    THEN Append(st1, NodeFrame(h, elem))
                    ELSE st1
           it2   == [it EXCEPT !.stack = st2]
       IN IF ValueOf(h, elem) # NilVal
          THEN [it |-> it2, node |-> elem]
          ELSE NextLoop(h, it2)

IterNext(h, it) == NextLoop(h, InitStack(it))

RECURSIVE SeekPrefixLoop(_, _, _)
\* faulty variant: a prefix that ends inside a node's prefix matches nothing
SeekPrefixLoop_NoPartial(h, it, srch) ==
  IF Len(srch) = 0
  THEN [it |-> [it EXCEPT !.skip = Len(h.nodes[it.node].prefix)],
        fault |-> "none"]
  ELSE LET c == getEdge(h, it.node, srch[1]).node
       IN IF c = 0 THEN [it |-> [it EXCEPT !.node = 0], fault |-> "none"]
          ELSE IF HasPrefix(srch, h.nodes[c].prefix)
          THEN SeekPrefixLoop(h, [it EXCEPT !.node = c],
                              Drop(srch, Len(h.nodes[c].prefix)))
          ELSE [it |-> [it EXCEPT !.node = 0], fault |-> "none"]

\* faulty variant: when no edge carries the next byte, the iterator stays on
\* the node reached so far
SeekPrefixLoop_StayOnMiss(h, it, srch) ==
  IF Len(srch) = 0
  THEN [it |-> [it EXCEPT !.skip = Len(h.nodes[it.node].prefix)],
        fault |-> "none"]
  ELSE LET c == getEdge(h, it.node, srch[1]).node
       IN IF c = 0 THEN [it |-> it, fault |-> "none"]
          ELSE IF HasPrefix(srch, h.nodes[c].prefix)
          THEN SeekPrefixLoop(h, [it EXCEPT !.node = c],
                              Drop(srch, Len(h.nodes[c].prefix)))
          ELSE IF HasPrefix(h.nodes[c].prefix, srch)
          THEN [it |-> [it EXCEPT !.node = c, !.skip = Len(srch)],
                fault |-> "none"]
          ELSE [it |-> [it EXCEPT !.node = 0], fault |-> "none"]

\* Iterator.SeekPrefix: [it, fault]
SeekPrefixLoop(h, it, srch) ==
  IF Len(srch) = 0
  THEN [it |-> [it EXCEPT !.skip = Len(h.nodes[it.node].prefix)],
        fault |-> "none"]
  ELSE LET c == getEdge(h, it.node, srch[1]).node
       IN IF c = 0 THEN [it |-> [it EXCEPT !.node = 0], fault |-> "none"]
          ELSE IF HasPrefix(srch, h.nodes[c].prefix)
          THEN SeekPrefixLoop(h, [it EXCEPT !.node = c],
                              Drop(srch, Len(h.nodes[c].prefix)))
          ELSE IF HasPrefix(h.nodes[c].prefix, srch)
          THEN [it |-> [it EXCEPT !.node = c, !.skip = Len(srch)],
                fault |-> "none"]
          ELSE [it |-> [it EXCEPT !.node = 0], fault |-> "none"]

SeekPrefix(h, it, prefix) ==
  LET wiped == [it EXCEPT !.stack = <<>>, !.stackNil = TRUE]
  IN IF it.node = 0
     THEN \* i.node.prefix, i.node.getEdge on a nil node
          [it |-> wiped, fault |-> "nil pointer dereference"]
     ELSE SeekPrefixLoop(h, wiped, prefix)

\* Iterator.findMin: [stack, node, fault]; a node without value and without
\* edges runs into n.edges[0]
RECURSIVE findMin(_, _, _)
findMin(h, stack, n) ==
  IF ValueOf(h, n) # NilVal
  THEN [stack |-> stack, node |-> n, fault |-> "none"]
  ELSE LET nEdges == h.nodes[n].edges.len
           st     == IF nEdges > 1
                     THEN Append(stack, FrameFrom(NodeFrame(h, n), 1))
                     ELSE stack
       IN IF nEdges = 0
          THEN [stack |-> st, node |-> 0, fault |-> "index out of range"]
          ELSE findMin(h, st, FrameNode(h, NodeFrame(h, n), 0))

\* the findMin closure of SeekLowerBound: push the minimum if there is one
PushMin(h, it, n) ==
  LET m == findMin(h, it.stack, n)
  IN [it |-> [it EXCEPT !.stack = IF m.node # 0
                                  THEN Append(m.stack, LitFrame(m.node))
                                  ELSE m.stack],
      fault |-> m.fault]

RECURSIVE SeekLowerBoundLoop(_, _, _, _)
\* faulty variant: a smaller prefix also wipes the stack
SeekLowerBoundLoop_WipeOnSmaller(h, it, n, srch) ==
  LET prefix    == IF it.skip > 0 THEN Drop(h.nodes[n].prefix, it.skip)
                   ELSE h.nodes[n].prefix
      it1       == [it EXCEPT !.skip = 0]
      prefixCmp == IF Len(prefix) < Len(srch)
                   THEN Compare(prefix, Take(srch, Len(prefix)))
                   ELSE Compare(prefix, srch)
      rest      == Drop(srch, Len(prefix))
  IN IF prefixCmp = "gt" THEN PushMin(h, it1, n)
     ELSE IF prefixCmp = "lt"
     THEN [it |-> [it1 EXCEPT !.node = 0, !.stack = <<>>], fault |-> "none"]
     ELSE IF Len(prefix) = Len(srch) /\ ValueOf(h, n) # NilVal
     THEN [it |-> [it1 EXCEPT !.stack = Append(@, LitFrame(n))], fault |-> "none"]
     ELSE IF Len(rest) = 0 THEN PushMin(h, it1, n)
     ELSE LET lb == getLowerBoundEdge(h, n, rest[1])
          IN IF lb.node = 0 THEN [it |-> it1, fault |-> "none"]
             ELSE SeekLowerBoundLoop(
                    h,
                    IF lb.idx + 1 < h.nodes[n].edges.len
                    THEN [it1 EXCEPT !.stack =
                            Append(@, FrameFrom(NodeFrame(h, n), lb.idx + 1))]
                    ELSE it1,
                    lb.node, rest)

\* the loop of Iterator.SeekLowerBound
SeekLowerBoundLoop(h, it, n, srch) ==
  LET prefix    == IF it.skip > 0 THEN Drop(h.nodes[n].prefix, it.skip)
                   ELSE h.nodes[n].prefix
      it1       == [it EXCEPT !.skip = 0]
      prefixCmp == IF Len(prefix) < Len(srch)
                   THEN Compare(prefix, Take(srch, Len(prefix)))
                   ELSE Compare(prefix, srch)
      rest      == Drop(srch, Len(prefix))
  IN IF prefixCmp = "gt" THEN PushMin(h, it1, n)
     ELSE IF prefixCmp = "lt" THEN [it |-> [it1 EXCEPT !.node = 0], fault |-> "none"]
     ELSE IF Len(prefix) = Len(srch) /\ ValueOf(h, n) # NilVal
     THEN [it |-> [it1 EXCEPT !.stack = Append(@, LitFrame(n))], fault |-> "none"]
     ELSE IF Len(rest) = 0 THEN PushMin(h, it1, n)
     ELSE LET lb == getLowerBoundEdge(h, n, rest[1])
          IN IF lb.node = 0 THEN [it |-> it1, fault |-> "none"]
             ELSE SeekLowerBoundLoop(
                    h,
                    IF lb.idx + 1 < h.nodes[n].edges.len
                    THEN [it1 EXCEPT !.stack =
                            Append(@, FrameFrom(NodeFrame(h, n), lb.idx + 1))]
                    ELSE it1,
                    lb.node, rest)

\* where the loop of SeekLowerBound returns: the branch, and the bytes from
\* the root to the end of the node under comparison
RECURSIVE SeekLowerBoundExit(_, _, _, _, _)
SeekLowerBoundExit(h, skip, n, srch, above) ==
  LET prefix    == IF skip > 0 THEN Drop(h.nodes[n].prefix, skip)
                   ELSE h.nodes[n].prefix
      prefixCmp == IF Len(prefix) < Len(srch)
                   THEN Compare(prefix, Take(srch, Len(prefix)))
                   ELSE Compare(prefix, srch)
      rest      == Drop(srch, Len(prefix))
      at        == above \o h.nodes[n].prefix
  IN IF prefixCmp = "gt" THEN [branch |-> "larger", at |-> at]
     ELSE IF prefixCmp = "lt" THEN [branch |-> "smaller", at |-> at]
     ELSE IF Len(prefix) = Len(srch) /\ ValueOf(h, n) # NilVal
     THEN [branch |-> "found", at |-> at]
     ELSE IF Len(rest) = 0 THEN [branch |-> "exhausted", at |-> at]
     ELSE LET lb == getLowerBoundEdge(h, n, rest[1])
          IN IF lb.node = 0 THEN [branch |-> "no edge", at |-> at]
             ELSE SeekLowerBoundExit(h, 0, lb.node, rest, at)

\* Iterator.SeekLowerBound: [it, fault]
SeekLowerBound(h, it, key) ==
  IF it.node = 0 THEN [it |-> it, fault |-> "none"]
  ELSE SeekLowerBoundLoop(
         h, [it EXCEPT !.stack = <<>>, !.stackNil = FALSE, !.node = 0],
         it.node, key)

\* NewReverseIterator: the expandedParents map is nil
NewReverseIterator(n) == [i |-> Iterator(n), expandedParents |-> {}]

ReverseSeekPrefix(h, ri, prefix) ==
  LET r == SeekPrefix(h, ri.i, prefix)
  IN [ri |-> [ri EXCEPT !.i = r.it], fault |-> r.fault]

RECURSIVE PreviousLoop(_, _)
\* faulty variant: a node is returned when it is first met, before its edges
\* are walked
PreviousLoop_ParentFirst(h, ri) ==
  IF Len(ri.i.stack) = 0 THEN [ri |-> ri, node |-> 0]
  ELSE LET n     == Len(ri.i.stack)
           lastf == ri.i.stack[n]
           m     == lastf.len
           elem  == FrameNode(h, lastf, m - 1)
           st1   == IF m > 1
                    THEN [ri.i.stack EXCEPT ![n] = FrameUpTo(lastf, m - 1)]
                    ELSE Take(ri.i.stack, n - 1)
           ri2   == [ri EXCEPT !.i.stack = IF h.nodes[elem].edges.len > 0
                                           THEN Append(st1, NodeFrame(h, elem))
                                           ELSE st1]
       IN IF ValueOf(h, elem) # NilVal
          THEN [ri |-> ri2, node |-> elem]
          ELSE PreviousLoop(h, ri2)

\* ReverseIterator.Previous: [ri, node]
PreviousLoop(h, ri) ==
  IF Len(ri.i.stack) = 0 THEN [ri |-> ri, node |-> 0]
  ELSE LET n     == Len(ri.i.stack)
           lastf == ri.i.stack[n]
           m     == lastf.len
           elem  == FrameNode(h, lastf, m - 1)
           alreadyExpanded == elem \in ri.expandedParents
       IN IF h.nodes[elem].edges.len > 0 /\ ~alreadyExpanded
          THEN PreviousLoop(h, [ri EXCEPT
                                  !.expandedParents = @ \cup {elem},
                                  !.i.stack = Append(@, NodeFrame(h, elem))])
          ELSE LET ri2 == [ri EXCEPT
                             !.i.stack = IF m > 1
                                         THEN [@ EXCEPT ![n] = FrameUpTo(lastf, m - 1)]
                                         ELSE Take(@, n - 1),
                             !.expandedParents = @ \ {elem}]
               IN IF ValueOf(h, elem) # NilVal
                  THEN [ri |-> ri2, node |-> elem]
                  ELSE PreviousLoop(h, ri2)

Previous(h, ri) == PreviousLoop(h, [ri EXCEPT !.i = InitStack(@)])

\* what a caller collects by calling Next (Previous) until it returns nil:
\* the key and the value of each leaf
LeafOf(h, n) == <<h.nodes[n].leaf.key, h.nodes[n].leaf.val>>

RECURSIVE Drain(_, _)
Drain(h, it) ==
  LET r == IterNext(h, it)
  IN IF r.node = 0 THEN <<>> ELSE <<LeafOf(h, r.node)>> \o Drain(h, r.it)

RECURSIVE DrainBack(_, _)
DrainBack(h, ri) ==
  LET r == Previous(h, ri)
  IN IF r.node = 0 THEN <<>> ELSE <<LeafOf(h, r.node)>> \o DrainBack(h, r.ri)

\* ------------------------------------------------------------ state
VARIABLES
  heap,     \* nodes and edge arrays
  roots,    \* roots handed out by Commit, with what was seen at that time
  txns,     \* the open transactions: revision, root, reference map
  opened,   \* transactions created since the first commit
  ops,      \* Insert/Delete calls made since the first commit
  last,     \* the last Insert/Delete call and what it returned
  it,       \* the iterator a reader holds, and what it has returned
  fault,    \* "none", or the panic that stopped the program
  pend      \* the Insert/Delete call in progress, when its writes are steps

vars == <<heap, roots, txns, opened, ops, last, it, fault, pend>>

\* a root as seen when it was handed out: the heap of that moment, and the
\* reference map of the transaction behind it
Observe(h, id, ref) == [node |-> id, heap |-> h, ref |-> ref]

\* the deep copy of the root, every lookup on it and its forward iteration,
\* as they were when it was handed out
CopyOf(r) == CopyTree(r.heap, r.node, <<>>)

GetsOf(r) == GetAll(r.heap, r.node)

FwdOf(r) == Drain(r.heap, Iterator(r.node))

\* values are opaque: the first transaction stores BaseVal, every later
\* Insert a value not stored before
BaseVal == 1

Vals == {ops + BaseVal + 1}

\* the first transaction: NewTxn(New()), Insert of the keys, Commit
RECURSIVE InsertAll(_, _, _)
InsertAll(h, t, ks) ==
  IF Len(ks) = 0 THEN [h |-> h, root |-> t.root]
  ELSE LET r == Insert(h, t, Head(ks), BaseVal)
       IN InsertAll(r.h, [t EXCEPT !.root = r.root], Tail(ks))

New == AllocNode(EmptyHeap, Node(0, NoLeaf, <<>>, NilSlice))

NoCall == [op |-> "none", key |-> <<>>, nilkey |-> FALSE, val |-> NilVal,
           ok |-> FALSE, was |-> Absent, merged |-> FALSE]

NoPend == [active |-> FALSE, h |-> EmptyHeap, t |-> 0, root |-> 0,
           key |-> <<>>, now |-> Absent, call |-> NoCall]

NoIter == [kind |-> "none", root |-> 0, i |-> Iterator(0),
           expandedParents |-> {}, seeks |-> <<>>, calls |-> 0,
           out |-> <<>>, done |-> FALSE, extra |-> 0]

Init ==
  \E S \in {T \in SUBSET Keys : Cardinality(T) <= MaxBase} :
    LET n == New
        b == InsertAll(n.h, NewTxn(n.h, n.id), SortKeys(S))
    IN /\ heap = b.h
       /\ roots = <<Observe(b.h, b.root,
                            [k \in Keys |-> IF k \in S
                                            THEN [val |-> BaseVal, ok |-> TRUE]
                                            ELSE Absent])>>
       /\ txns = <<>>
       /\ opened = 0
       /\ ops = 0
       /\ last = NoCall
       /\ it = NoIter
       /\ fault = "none"
       /\ pend = NoPend

\* NewTxn(r) on a root handed out earlier.  id, base, twin and n are
\* bookkeeping: a number for the transaction, the root it started from, the
\* transaction it was cloned from or into, and its Insert/Delete calls.
DoNewTxn(r) ==
  /\ fault = "none"
  /\ opened < MaxTxns
  /\ opened' = opened + 1
  /\ txns' = Append(txns, [revision |-> NewTxn(heap, roots[r].node).revision,
                           root |-> roots[r].node,
                           ref |-> roots[r].ref,
                           id |-> opened + 1, base |-> r, twin |-> 0,
                           n |-> 0, merged |-> FALSE])
  /\ UNCHANGED <<heap, roots, ops, last, it, fault, pend>>

DoInsert(t, k, v) ==
  /\ fault = "none"
  /\ ops < MaxOps
  /\ \E r \in {Insert(heap, txns[t], k, v)} :
        /\ fault' = r.fault
        /\ heap' = r.h
        /\ txns' = [txns EXCEPT ![t].root = r.root,
                                ![t].ref[k] = [val |-> v, ok |-> TRUE],
                                ![t].n = @ + 1]
        /\ last' = [op |-> "insert", key |-> k, nilkey |-> FALSE, val |-> r.val, ok |-> r.ok,
                    was |-> txns[t].ref[k], merged |-> FALSE]
  /\ ops' = ops + 1
  /\ UNCHANGED <<roots, opened, it, pend>>

DoDelete(t, k) ==
  /\ fault = "none"
  /\ ops < MaxOps
  /\ \E r \in {Delete(heap, txns[t], k)} :
        /\ heap' = r.h
        /\ txns' = [txns EXCEPT ![t].root = r.root, ![t].ref[k] = Absent,
                                ![t].n = @ + 1,
                                ![t].merged = @ \/ r.merged]
        /\ last' = [op |-> "delete", key |-> k, nilkey |-> FALSE, val |-> r.val, ok |-> r.ok,
                    was |-> txns[t].ref[k], merged |-> r.merged]
  /\ ops' = ops + 1
  /\ UNCHANGED <<roots, opened, it, fault, pend>>

\* Insert and Delete called with a []byte that may be nil
DoInsertKey(t, gk, v) ==
  /\ fault = "none"
  /\ ops < MaxOps
  /\ \E r \in {TxnInsert(heap, txns[t], gk, v)} :
        /\ fault' = r.fault
        /\ heap' = r.h
        /\ txns' = [txns EXCEPT ![t].root = r.root,
                                ![t].ref[gk.bytes] = [val |-> v, ok |-> TRUE],
                                ![t].n = @ + 1]
        /\ last' = [op |-> "insert", key |-> gk.bytes, nilkey |-> gk.isNil,
                    val |-> r.val, ok |-> r.ok,
                    was |-> txns[t].ref[gk.bytes], merged |-> FALSE]
  /\ ops' = ops + 1
  /\ UNCHANGED <<roots, opened, it, pend>>

DoDeleteKey(t, gk) ==
  /\ fault = "none"
  /\ ops < MaxOps
  /\ \E r \in {TxnDelete(heap, txns[t], gk)} :
        /\ heap' = r.h
        /\ txns' = [txns EXCEPT ![t].root = r.root, ![t].ref[gk.bytes] = Absent,
                                ![t].n = @ + 1,
                                ![t].merged = @ \/ r.merged]
        /\ last' = [op |-> "delete", key |-> gk.bytes, nilkey |-> gk.isNil,
                    val |-> r.val, ok |-> r.ok,
                    was |-> txns[t].ref[gk.bytes], merged |-> r.merged]
  /\ ops' = ops + 1
  /\ UNCHANGED <<roots, opened, it, fault, pend>>

\* ---- the caller's key buffer
\* Insert stores slices of its argument: `prefix: search` in a new leaf,
\* `prefix: search[:commonPrefix]` in a split node, `key: k` in the leaf.
\* The nodes on the search path of k with the number of bytes of k consumed
\* when they are reached.
RECURSIVE PathOf(_, _, _, _)
PathOf(h, n, k, off) ==
  {[node |-> n, end |-> off]}
    \cup IF off = Len(k) THEN {}
         ELSE LET c == getEdge(h, n, k[off + 1]).node
              IN IF c = 0 \/ ~HasPrefix(Drop(k, off), h.nodes[c].prefix)
                 THEN {}
                 ELSE PathOf(h, c, k, off + Len(h.nodes[c].prefix))

\* the nodes Insert(k) made with a prefix cut from k: those on the path of
\* k that the tree before the call (root old) has no node for
Views(h, old, new, k) ==
  {e \in PathOf(h, new, k, 0) :
     \A o \in PathOf(h, old, k, 0) : o.end # e.end}

\* the caller writes the bytes b over the buffer it passed as k: every slice
\* of the buffer reads the new bytes
Overwrite(h, old, new, k, b) ==
  [h EXCEPT !.nodes =
     [n \in 1..Len(h.nodes) |->
        LET v  == {e \in Views(h, old, new, k) : e.node = n}
            at == {e \in PathOf(h, new, k, 0) : e.node = n /\ e.end = Len(k)}
            p  == IF v = {} THEN h.nodes[n].prefix
                  ELSE LET e == CHOOSE x \in v : TRUE
                       IN SubSeq(b, e.end - Len(h.nodes[n].prefix) + 1, e.end)
            lf == IF at = {} THEN h.nodes[n].leaf
                  ELSE [h.nodes[n].leaf EXCEPT !.key = b]
        IN [h.nodes[n] EXCEPT !.prefix = p, !.leaf = lf]]]

\* the buffers of the length of k that differ from k
OtherBytes(k) == {b \in [1..Len(k) -> Labels] : b # k}

DoOverwrite(b) ==
  /\ fault = "none"
  /\ Len(txns) = 1 /\ txns[1].n = 1
  /\ last.op = "insert"
  /\ heap' = Overwrite(heap, roots[txns[1].base].node, txns[1].root, last.key, b)
  /\ last' = [last EXCEPT !.op = "overwrite"]
  /\ UNCHANGED <<roots, txns, opened, ops, it, fault, pend>>

\* faulty variant: only the clone takes the next revision
Clone_KeepOriginal(t) ==
  [orig |-> t, copy |-> [revision |-> t.revision + 1, root |-> t.root]]

\* faulty variant: the revision is not bumped
Clone_SameRevision(t) ==
  [orig |-> t, copy |-> [revision |-> t.revision, root |-> t.root]]

\* Txn.Clone: the revision of t is bumped and the clone takes the same one
Clone(t) ==
  [orig |-> [t EXCEPT !.revision = @ + 1],
   copy |-> [revision |-> t.revision + 1, root |-> t.root]]

DoClone(t) ==
  /\ fault = "none"
  /\ opened < MaxTxns
  /\ opened' = opened + 1
  /\ \E c \in {Clone(txns[t])} :
        txns' = Append([txns EXCEPT ![t] = [c.orig EXCEPT !.twin = opened + 1]],
                       [txns[t] EXCEPT !.revision = c.copy.revision,
                                       !.root = c.copy.root,
                                       !.id = opened + 1,
                                       !.twin = txns[t].id])
  /\ UNCHANGED <<heap, roots, ops, last, it, fault, pend>>

\* Txn.Commit: the root is handed out; the transaction is not used again
Commit(t) == t.root

DoCommit(t) ==
  /\ fault = "none"
  /\ txns' = [i \in 1..(Len(txns) - 1) |-> IF i < t THEN txns[i] ELSE txns[i + 1]]
  /\ roots' = IF \E i \in 1..Len(roots) : roots[i].node = Commit(txns[t])
              THEN roots
              ELSE Append(roots, Observe(heap, Commit(txns[t]), txns[t].ref))
  /\ UNCHANGED <<heap, opened, ops, last, it, fault, pend>>

\* ---- a reader with an iterator on a committed root
MaxExtra == 1       \* calls of Next/Previous after it has returned nil

DoIterator(r) ==
  /\ fault = "none"
  /\ it.kind = "none"
  /\ it' = [NoIter EXCEPT !.kind = "fwd", !.root = roots[r].node,
                          !.i = Iterator(roots[r].node)]
  /\ UNCHANGED <<heap, roots, txns, opened, ops, last, fault, pend>>

DoReverseIterator(r) ==
  /\ fault = "none"
  /\ it.kind = "none"
  /\ it' = [NoIter EXCEPT !.kind = "rev", !.root = roots[r].node,
                          !.i = NewReverseIterator(roots[r].node).i,
                          !.expandedParents =
                             NewReverseIterator(roots[r].node).expandedParents]
  /\ UNCHANGED <<heap, roots, txns, opened, ops, last, fault, pend>>

Sought(i, what, key) ==
  [it EXCEPT !.i = i, !.seeks = Append(@, <<what, key>>), !.calls = 0,
             !.out = <<>>, !.done = FALSE, !.extra = 0]

DoSeekPrefix(p) ==
  /\ fault = "none"
  /\ it.kind \in {"fwd", "rev"}
  /\ \E r \in {SeekPrefix(heap, it.i, p)} :
        /\ it' = Sought(r.it, "prefix", p)
        /\ fault' = r.fault
  /\ UNCHANGED <<heap, roots, txns, opened, ops, last, pend>>

DoSeekLowerBound(k) ==
  /\ fault = "none"
  /\ it.kind = "fwd"
  /\ \E r \in {SeekLowerBound(heap, it.i, k)} :
        /\ it' = Sought(r.it, "lower", k)
        /\ fault' = r.fault
  /\ UNCHANGED <<heap, roots, txns, opened, ops, last, pend>>

Returned(i, ep, n) ==
  [it EXCEPT !.i = i, !.expandedParents = ep, !.calls = @ + 1,
             !.out = IF n = 0 THEN @ ELSE Append(@, LeafOf(heap, n)),
             !.done = @ \/ n = 0,
             !.extra = IF it.done THEN @ + 1 ELSE @]

DoNext ==
  /\ fault = "none"
  /\ it.kind = "fwd"
  /\ it.done => it.extra < MaxExtra
  /\ \E r \in {IterNext(heap, it.i)} :
        it' = Returned(r.it, it.expandedParents, r.node)
  /\ UNCHANGED <<heap, roots, txns, opened, ops, last, fault, pend>>

DoPrevious ==
  /\ fault = "none"
  /\ it.kind = "rev"
  /\ it.done => it.extra < MaxExtra
  /\ \E r \in {Previous(heap, [i |-> it.i,
                                  expandedParents |-> it.expandedParents])} :
        it' = Returned(r.ri.i, r.ri.expandedParents, r.node)
  /\ UNCHANGED <<heap, roots, txns, opened, ops, last, fault, pend>>

\* ---- an Insert/Delete call as the writes it makes, one object at a time
\* The objects a call writes are the nodes and edge arrays in which the heap
\* after the call differs from the heap before it.  The call first allocates
\* (zeroed nodes and arrays, reachable from nowhere), then writes the objects
\* in any order, then returns.
MaxStepOps == 1     \* calls made step by step

ZeroNode == Node(0, NoLeaf, <<>>, NilSlice)

Extend(h, target) ==
  [nodes |-> [i \in 1..Len(target.nodes) |->
                IF i <= Len(h.nodes) THEN h.nodes[i] ELSE ZeroNode],
   arrs  |-> [i \in 1..Len(target.arrs) |->
                IF i <= Len(h.arrs) THEN h.arrs[i]
                ELSE Pad(<<>>, Len(target.arrs[i]))]]

\* the objects still to be written
Cells(h, target) ==
  {<<"node", i>> : i \in {j \in 1..Len(target.nodes) :
                            h.nodes[j] # target.nodes[j]}}
  \cup {<<"arr", i>> : i \in {j \in 1..Len(target.arrs) :
                                h.arrs[j] # target.arrs[j]}}

WriteCell(h, target, c) ==
  IF c[1] = "node"
  THEN [h EXCEPT !.nodes[c[2]] = target.nodes[c[2]]]
  ELSE [h EXCEPT !.arrs[c[2]] = target.arrs[c[2]]]

BeginInsert(t, k, v) ==
  /\ fault = "none"
  /\ ~pend.active
  /\ ops < MaxStepOps
  /\ \E r \in {Insert(heap, txns[t], k, v)} :
        /\ fault' = r.fault
        /\ heap' = Extend(heap, r.h)
        /\ pend' = [active |-> TRUE, h |-> r.h, t |-> t, root |-> r.root,
                    key |-> k, now |-> [val |-> v, ok |-> TRUE],
                    call |-> [op |-> "insert", key |-> k, nilkey |-> FALSE, val |-> r.val,
                              ok |-> r.ok, was |-> txns[t].ref[k],
                              merged |-> FALSE]]
  /\ ops' = ops + 1
  /\ UNCHANGED <<roots, txns, opened, last, it>>

BeginDelete(t, k) ==
  /\ fault = "none"
  /\ ~pend.active
  /\ ops < MaxStepOps
  /\ \E r \in {Delete(heap, txns[t], k)} :
        /\ heap' = Extend(heap, r.h)
        /\ pend' = [active |-> TRUE, h |-> r.h, t |-> t, root |-> r.root,
                    key |-> k, now |-> Absent,
                    call |-> [op |-> "delete", key |-> k, nilkey |-> FALSE, val |-> r.val,
                              ok |-> r.ok, was |-> txns[t].ref[k],
                              merged |-> r.merged]]
  /\ ops' = ops + 1
  /\ UNCHANGED <<roots, txns, opened, last, it, fault>>

WriteStep(c) ==
  /\ fault = "none"
  /\ pend.active
  /\ c \in Cells(heap, pend.h)
  /\ heap' = WriteCell(heap, pend.h, c)
  /\ UNCHANGED <<roots, txns, opened, ops, last, it, fault, pend>>

EndCall ==
  /\ fault = "none"
  /\ pend.active
  /\ heap = pend.h
  /\ txns' = [txns EXCEPT ![pend.t].root = pend.root,
                          ![pend.t].ref[pend.key] = pend.now,
                          ![pend.t].n = @ + 1,
                          ![pend.t].merged = @ \/ pend.call.merged]
  /\ last' = pend.call
  /\ pend' = NoPend
  /\ UNCHANGED <<heap, roots, opened, ops, it, fault>>

\* ---- specifications
\* one transaction at a time
Next ==
  \/ \E r \in 1..Len(roots) : txns = <<>> /\ DoNewTxn(r)
  \/ \E t \in 1..Len(txns), k \in Keys, v \in Vals : DoInsert(t, k, v)
  \/ \E t \in 1..Len(txns), k \in Keys : DoDelete(t, k)
  \/ \E t \in 1..Len(txns) : DoCommit(t)

Spec == Init /\ [][Next]_vars

\* one transaction at a time, its calls made with keys that may be nil
NextRoot ==
  \/ \E r \in 1..Len(roots) : txns = <<>> /\ DoNewTxn(r)
  \/ \E t \in 1..Len(txns), gk \in GoKeys, v \in Vals : DoInsertKey(t, gk, v)
  \/ \E t \in 1..Len(txns), gk \in GoKeys : DoDeleteKey(t, gk)
  \/ \E t \in 1..Len(txns) : DoCommit(t)

SpecRoot == Init /\ [][NextRoot]_vars

\* a transaction makes one Insert, and the caller then reuses the buffer
\* that held the key
NextBuf ==
  \/ \E r \in 1..Len(roots) : txns = <<>> /\ last.op = "none" /\ DoNewTxn(r)
  \/ \E t \in 1..Len(txns), k \in Keys, v \in Vals : txns[t].n = 0 /\ DoInsert(t, k, v)
  \/ \E b \in OtherBytes(last.key) : DoOverwrite(b)
  \/ \E t \in 1..Len(txns) : DoCommit(t)

SpecBuf == Init /\ [][NextBuf]_vars

\* transactions opened by NewTxn side by side, their calls interleaved
NextConc ==
  \/ \E r \in 1..Len(roots) : DoNewTxn(r)
  \/ \E t \in 1..Len(txns), k \in Keys, v \in Vals : DoInsert(t, k, v)
  \/ \E t \in 1..Len(txns), k \in Keys : DoDelete(t, k)
  \/ \E t \in 1..Len(txns) : DoCommit(t)

SpecConc == Init /\ [][NextConc]_vars

\* a transaction and its clone, their calls interleaved, on a tree of at most
\* MaxCloneBase keys
MaxCloneBase == 2

InitClone == Init /\ Cardinality({k \in Keys : roots[1].ref[k].ok}) <= MaxCloneBase

NextClone ==
  \/ \E r \in 1..Len(roots) : opened = 0 /\ DoNewTxn(r)
  \/ \E t \in 1..Len(txns), k \in Keys, v \in Vals : DoInsert(t, k, v)
  \/ \E t \in 1..Len(txns), k \in Keys : DoDelete(t, k)
  \/ \E t \in 1..Len(txns) : DoClone(t)
  \/ \E t \in 1..Len(txns) : DoCommit(t)

SpecClone == InitClone /\ [][NextClone]_vars

\* transactions opened by NewTxn on any committed root and by Clone, their
\* calls interleaved, on a tree of at most MaxCloneBase keys
NextOwn ==
  \/ \E r \in 1..Len(roots) : DoNewTxn(r)
  \/ \E t \in 1..Len(txns), k \in Keys, v \in Vals : DoInsert(t, k, v)
  \/ \E t \in 1..Len(txns), k \in Keys : DoDelete(t, k)
  \/ \E t \in 1..Len(txns) : DoClone(t)
  \/ \E t \in 1..Len(txns) : DoCommit(t)

SpecOwn == InitClone /\ [][NextOwn]_vars

\* one transaction at a time, storing nil among the values, on a tree of at
\* most MaxCloneBase keys
NextNilVal ==
  \/ \E r \in 1..Len(roots) : txns = <<>> /\ DoNewTxn(r)
  \/ \E t \in 1..Len(txns), k \in Keys, v \in Vals \cup {NilVal} : DoInsert(t, k, v)
  \/ \E t \in 1..Len(txns), k \in Keys : DoDelete(t, k)
  \/ \E t \in 1..Len(txns) : DoCommit(t)

SpecNilVal == InitClone /\ [][NextNilVal]_vars

\* a tree built by the first transaction and at most MaxIterOps later calls,
\* then a fresh iterator on the last committed root: at most one seek, and
\* Next or Previous until nil
MaxIterOps == 1

Building == it.kind = "none" /\ ops < MaxIterOps

NextIter ==
  \/ \E r \in 1..Len(roots) : Building /\ txns = <<>> /\ DoNewTxn(r)
  \/ \E t \in 1..Len(txns), k \in Keys, v \in Vals : Building /\ DoInsert(t, k, v)
  \/ \E t \in 1..Len(txns), k \in Keys : Building /\ DoDelete(t, k)
  \/ \E t \in 1..Len(txns) : it.kind = "none" /\ DoCommit(t)
  \/ txns = <<>> /\ DoIterator(Len(roots))
  \/ txns = <<>> /\ DoReverseIterator(Len(roots))
  \/ \E p \in Keys : it.seeks = <<>> /\ it.calls = 0 /\ DoSeekPrefix(p)
  \/ \E k \in Keys : it.seeks = <<>> /\ it.calls = 0 /\ DoSeekLowerBound(k)
  \/ DoNext
  \/ DoPrevious

SpecIter == Init /\ [][NextIter]_vars

\* the same, with a reader that goes on calling Next (Previous) on the
\* iterator it holds
SpecIterFair == SpecIter /\ WF_vars(DoNext) /\ WF_vars(DoPrevious)

\* an iterator on the root of a tree built by the first transaction, sought
\* at most MaxSeeks times in a row (SeekPrefix and SeekLowerBound in any
\* order) before Next or Previous is called until nil
MaxSeeks == 2

CanSeek == Len(it.seeks) < MaxSeeks /\ it.calls = 0

NextSeek ==
  \/ DoIterator(1)
  \/ DoReverseIterator(1)
  \/ \E p \in Keys : CanSeek /\ DoSeekPrefix(p)
  \/ \E k \in Keys : CanSeek /\ DoSeekLowerBound(k)
  \/ DoNext
  \/ DoPrevious

SpecSeek == Init /\ [][NextSeek]_vars

\* a reverse iterator on the root of a tree built by the first transaction,
\* sought by SeekPrefix once, after any number of Previous calls
NextReseek ==
  \/ DoReverseIterator(1)
  \/ \E p \in Keys : it.seeks = <<>> /\ DoSeekPrefix(p)
  \/ DoPrevious

SpecReseek == Init /\ [][NextReseek]_vars

\* a reader of the first root (Get at any moment, an iterator advanced at any
\* moment) next to a transaction on that root whose calls run write by
\* write, on a tree of at most MaxStepBase keys
MaxStepBase == 2

InitSteps == Init /\ Cardinality({k \in Keys : roots[1].ref[k].ok}) <= MaxStepBase

NextSteps ==
  \/ \E r \in 1..Len(roots) : opened = 0 /\ DoNewTxn(r)
  \/ \E t \in 1..Len(txns), k \in Keys, v \in Vals : BeginInsert(t, k, v)
  \/ \E t \in 1..Len(txns), k \in Keys : BeginDelete(t, k)
  \/ \E c \in Cells(heap, pend.h) : WriteStep(c)
  \/ EndCall
  \/ \E r \in 1..Len(roots) : DoIterator(r)
  \/ DoNext

SpecSteps == InitSteps /\ [][NextSteps]_vars

\* ------------------------------------------------------------ properties
\* C1: Get on a transaction, and on the root its Commit returned, is present
\* exactly for the keys of the reference map (the base root's contents with
\* the transaction's inserts and deletes applied in order) and returns that
\* map's value, for every key, prefixes and extensions of stored keys included.
C1_GetEqualsReferenceMap ==
  /\ \A t \in 1..Len(txns) : GetAll(heap, txns[t].root) = txns[t].ref
  /\ \A i \in 1..Len(roots) : GetsOf(roots[i]) = roots[i].ref

\* a committed transaction that inserted and then deleted; a stored key it
\* inserted is an extension of another stored key
C1_Witness ==
  /\ Len(roots) = 2 /\ txns = <<>> /\ ops = 2
  /\ last.op = "delete" /\ last.ok
  /\ \E k1, k2 \in Keys :
       /\ k1 # k2 /\ HasPrefix(k2, k1)
       /\ roots[2].ref[k1].ok /\ roots[2].ref[k2].ok
       /\ roots[2].ref[k2].val > BaseVal

\* C2: snapshot isolation: every root handed out earlier still answers every
\* Get, and iterates, as it did when it was handed out, whatever Insert,
\* Delete and Commit ran on transactions since.
C2_SnapshotIsolation ==
  \A i \in 1..Len(roots) :
    /\ GetAll(heap, roots[i].node) = GetsOf(roots[i])
    /\ Drain(heap, Iterator(roots[i].node)) = FwdOf(roots[i])

\* a transaction on the first root made two calls, changed the contents and
\* committed
C2_Witness ==
  /\ Len(roots) = 2 /\ txns = <<>> /\ ops = 2
  /\ GetsOf(roots[2]) # GetsOf(roots[1])
  /\ FwdOf(roots[2]) # FwdOf(roots[1])
  /\ FwdOf(roots[1]) # <<>>

\* C3: no node reachable from a root handed out earlier is ever modified:
\* the deep copy taken when the root was handed out (revision, value, prefix
\* and edges of every node) still equals the tree below the root, after
\* inserting and after deleting transactions.
C3_RootsNeverModified ==
  \A i \in 1..Len(roots) : CopyTree(heap, roots[i].node, <<>>) = CopyOf(roots[i])

\* an inserting transaction committed, then a deleting one whose Delete
\* merged a node with its remaining child
C3_Witness ==
  /\ Len(roots) = 3 /\ txns = <<>>
  /\ \E k \in Keys : ~roots[1].ref[k].ok /\ roots[2].ref[k].ok
  /\ last.op = "delete" /\ last.ok /\ last.merged
  /\ Cardinality(CopyOf(roots[1])) > 2

C5_CloneIsolation ==
  /\ \A t \in 1..Len(txns) :
       \A k \in Keys : Get(heap, txns[t].root, k) = txns[t].ref[k]
  /\ \A i \in 1..Len(roots) :
       \A k \in Keys : Get(heap, roots[i].node, k) = roots[i].ref[k]

\* a write, then Clone, then a write on one of the two
C5_Witness ==
  /\ Len(txns) = 2 /\ ops = MaxOps
  /\ txns[1].twin = txns[2].id /\ txns[2].twin = txns[1].id
  /\ txns[1].ref # txns[2].ref
  /\ txns[1].ref # roots[1].ref /\ txns[2].ref # roots[1].ref

\* ---- what an iterator is expected to return
\* the reference map of the root the iterator was created on
ItRef == roots[CHOOSE i \in 1..Len(roots) : roots[i].node = it.root].ref

StoredKeys(ref) == {k \in Keys : ref[k].ok}

\* the entries of ref with a key in S, in ascending key order
Ascending(ref, S) ==
  LET ks == SortKeys(S) IN [i \in 1..Len(ks) |-> <<ks[i], ref[ks[i]].val>>]

Reverse(s) == [i \in 1..Len(s) |-> s[Len(s) + 1 - i]]

\* the iterator was sought once, by `what`, and has not been sought since
SoughtOnce(what) == Len(it.seeks) = 1 /\ it.seeks[1][1] = what

\* the root the iterator was created on
ItRoot == roots[CHOOSE i \in 1..Len(roots) : roots[i].node = it.root]

\* C6: readers of a committed root need no coordination: between any two
\* writes of an Insert or Delete running in a transaction on that root,
\* every Get on the root, every node reachable from it and an iteration in
\* progress on it give what they give when no transaction runs.
C6_ReadersUndisturbed ==
  /\ \A i \in 1..Len(roots) : GetAll(heap, roots[i].node) = GetsOf(roots[i])
  /\ it.kind = "fwd" =>
       /\ Len(it.out) <= Len(FwdOf(ItRoot))
       /\ \A j \in 1..Len(it.out) : it.out[j] = FwdOf(ItRoot)[j]
       /\ it.done => Len(it.out) = Len(FwdOf(ItRoot))
  /\ \A i \in 1..Len(roots) : CopyTree(heap, roots[i].node, <<>>) = CopyOf(roots[i])

\* in the middle of a call that changes the tree: a node has been written,
\* another object has not, and the reader is in the middle of its iteration
C6_Witness ==
  /\ pend.active /\ pend.call.was # pend.now
  /\ Cells(heap, pend.h) # {}
  /\ \E i \in 1..Len(heap.nodes) :
       heap.nodes[i] # ZeroNode /\ heap.nodes[i].revision = txns[pend.t].revision
  /\ it.kind = "fwd" /\ it.calls >= 1 /\ ~it.done

\* C7: forward iteration: Next repeated on an iterator created from a
\* committed root until it returns nil yields the entry of every stored key
\* exactly once, in strictly ascending key order, whether the keys were
\* inserted by one transaction or by several.
C7_ForwardIteration ==
  (it.kind = "fwd" /\ it.seeks = <<>> /\ it.done)
    => it.out = Ascending(ItRef, StoredKeys(ItRef))

\* a full iteration over keys of two transactions, one a prefix of another
C7_Witness ==
  /\ it.kind = "fwd" /\ it.seeks = <<>> /\ it.done
  /\ Len(it.out) = MaxBase + 1
  /\ Len(roots) = 2 /\ it.root = roots[2].node
  /\ \E i, j \in 1..Len(it.out) :
       i # j /\ HasPrefix(it.out[j][1], it.out[i][1]) /\ it.out[j][2] > BaseVal

\* the stored keys that are not below k
AtLeast(ref, k) == {j \in StoredKeys(ref) : Compare(j, k) # "lt"}

\* C8: SeekLowerBound(k) on a fresh iterator and Next until nil yields
\* exactly the entries with a key >= k in ascending order, for every key set
\* (the empty one included) and every k, without the call failing;
\* SeekLowerBound of the empty key yields every entry.
C8_SeekLowerBound ==
  (it.kind = "fwd" /\ SoughtOnce("lower"))
    => /\ fault = "none"
       /\ it.done => it.out = Ascending(ItRef, AtLeast(ItRef, it.seeks[1][2]))

\* C8, on trees that store a key: the same statement holds
C8_SeekLowerBoundNonEmpty ==
  (it.kind = "fwd" /\ SoughtOnce("lower") /\ StoredKeys(ItRef) # {})
    => /\ fault = "none"
       /\ it.done => it.out = Ascending(ItRef, AtLeast(ItRef, it.seeks[1][2]))

\* C8, on a tree that stores no key: nothing is yielded unless the call fails
C8_SeekLowerBoundEmpty ==
  (it.kind = "fwd" /\ SoughtOnce("lower") /\ StoredKeys(ItRef) = {})
    => /\ fault = "none" => (it.done => it.out = <<>>)
       /\ fault # "none" => (fault = "index out of range" /\ it.seeks[1][2] = <<>>)

\* C9: SeekPrefix(p) on a fresh iterator and Next until nil yields exactly
\* the entries whose key has p as a prefix, in ascending order: also when p
\* ends inside a node's prefix, when p is empty, when no key has the prefix.
C9_SeekPrefix ==
  (it.kind = "fwd" /\ SoughtOnce("prefix") /\ it.done)
    => /\ fault = "none"
       /\ it.out = Ascending(ItRef, {k \in StoredKeys(ItRef) :
                                       HasPrefix(k, it.seeks[1][2])})

\* the prefix ended inside a node's prefix and two keys or more were yielded,
\* while another stored key was left out
C9_Witness ==
  /\ it.kind = "fwd" /\ SoughtOnce("prefix") /\ it.done
  /\ it.i.node # 0
  /\ 0 < it.i.skip /\ it.i.skip < Len(heap.nodes[it.i.node].prefix)
  /\ Len(it.out) >= 2
  /\ Cardinality(StoredKeys(ItRef)) > Len(it.out)

\* C10: reverse iteration: Previous repeated on a reverse iterator created
\* from a committed root until it returns nil yields the entry of every
\* stored key exactly once in strictly descending key order; a key stored at
\* an internal node comes after the keys stored below it.
C10_ReverseIteration ==
  (it.kind = "rev" /\ it.seeks = <<>> /\ it.done)
    => it.out = Reverse(Ascending(ItRef, StoredKeys(ItRef)))

\* a full reverse iteration in which a key follows two extensions of it
C10_Witness ==
  /\ it.kind = "rev" /\ it.seeks = <<>> /\ it.done
  /\ Len(it.out) >= 3
  /\ \E i \in 1..Len(it.out) :
       Cardinality({j \in 1..(i - 1) :
                      /\ it.out[j][1] # it.out[i][1]
                      /\ HasPrefix(it.out[j][1], it.out[i][1])}) >= 2

\* the iterator was sought by SeekPrefix and then by SeekLowerBound
PrefixThenLower ==
  /\ Len(it.seeks) = 2
  /\ it.seeks[1][1] = "prefix" /\ it.seeks[2][1] = "lower"

\* the stored keys p \o s with s >= b
AtLeastUnder(ref, p, b) ==
  {k \in StoredKeys(ref) :
     HasPrefix(k, p) /\ Compare(Drop(k, Len(p)), b) # "lt"}

\* C11: SeekPrefix(p) and then SeekLowerBound(b) on the same iterator,
\* followed by Next until nil, yields exactly the entries with a key p \o s,
\* s >= b, in ascending order: the bound is relative to the prefix, also
\* when p ended inside a node's prefix; no call fails.
C11_PrefixThenLowerBound ==
  (it.kind = "fwd" /\ PrefixThenLower)
    => /\ fault = "none"
       /\ it.done => it.out = Ascending(ItRef, AtLeastUnder(ItRef, it.seeks[1][2],
                                                              it.seeks[2][2]))

\* C11, on trees that store a key: the same statement holds
C11_PrefixThenLowerBoundNonEmpty ==
  (it.kind = "fwd" /\ PrefixThenLower /\ StoredKeys(ItRef) # {})
    => /\ fault = "none"
       /\ it.done => it.out = Ascending(ItRef, AtLeastUnder(ItRef, it.seeks[1][2],
                                                              it.seeks[2][2]))

\* C11, on a tree that stores no key: nothing is yielded unless the call
\* fails, and it fails only for the empty prefix and the empty bound
C11_PrefixThenLowerBoundEmpty ==
  (it.kind = "fwd" /\ PrefixThenLower /\ StoredKeys(ItRef) = {})
    => /\ fault = "none" => (it.done => it.out = <<>>)
       /\ fault # "none" => /\ fault = "index out of range"
                            /\ it.seeks[1][2] = <<>> /\ it.seeks[2][2] = <<>>

\* the prefix ended inside a node's prefix, the bound is not empty, and the
\* iteration yielded some of the keys under the prefix and left others out
C11_Witness ==
  /\ it.kind = "fwd" /\ PrefixThenLower /\ it.done
  /\ it.seeks[2][2] # <<>>
  /\ Len(it.out) >= 1
  /\ Cardinality({k \in StoredKeys(ItRef) : HasPrefix(k, it.seeks[1][2])})
       > Len(it.out)
  /\ \E sp \in {SeekPrefix(heap, Iterator(it.root), it.seeks[1][2]).it} :
       /\ sp.node # 0
       /\ 0 < sp.skip /\ sp.skip < Len(heap.nodes[sp.node].prefix)

\* the stored keys that have p as a prefix
Under(ref, p) == {k \in StoredKeys(ref) : HasPrefix(k, p)}

\* C12: SeekPrefix(p) on a fresh reverse iterator and Previous until nil
\* yields exactly the entries whose key has p as a prefix, in descending
\* order; when no stored key has the prefix, the iterator has no node after
\* the seek and Previous returns nil.
C12_ReverseSeekPrefix ==
  (it.kind = "rev" /\ SoughtOnce("prefix"))
    => /\ fault = "none"
       /\ (Under(ItRef, it.seeks[1][2]) = {} /\ it.calls = 0) => it.i.node = 0
       /\ it.done => it.out = Reverse(Ascending(ItRef, Under(ItRef, it.seeks[1][2])))

\* C12, amended: the same, but on a tree that stores no key the iterator
\* sought with the empty prefix keeps the root as its node
C12_ReverseSeekPrefixAmended ==
  (it.kind = "rev" /\ SoughtOnce("prefix"))
    => /\ fault = "none"
       /\ (Under(ItRef, it.seeks[1][2]) = {} /\ it.calls = 0) =>
            it.i.node = IF StoredKeys(ItRef) = {} /\ it.seeks[1][2] = <<>>
                        THEN it.root ELSE 0
       /\ it.done => it.out = Reverse(Ascending(ItRef, Under(ItRef, it.seeks[1][2])))

\* a reverse iteration under a non-empty prefix that yielded a key after an
\* extension of it and left another stored key out
C12_Witness ==
  /\ it.kind = "rev" /\ SoughtOnce("prefix") /\ it.done
  /\ it.seeks[1][2] # <<>>
  /\ Len(it.out) >= 2
  /\ Cardinality(StoredKeys(ItRef)) > Len(it.out)
  /\ HasPrefix(it.out[1][1], it.out[Len(it.out)][1])

\* C13: Insert(k, v) returns the value stored under k before the call
\* together with true, or nil and false when k was not stored, whichever way
\* the key gets into the tree (a node's value set, an edge added, an edge
\* split); afterwards Get(k) on the transaction gives v; a second Insert of
\* the same key returns the value of the first.
C13_InsertReturnsPrevious ==
  (last.op = "insert")
    => /\ [val |-> last.val, ok |-> last.ok] = last.was
       /\ ~last.was.ok => (last.val = NilVal /\ ~last.ok)
       /\ \A t \in 1..Len(txns) :
            \* the transaction that made the call
            txns[t].n >= 1 =>
              Get(heap, txns[t].root, last.key) = [val |-> ops + BaseVal, ok |-> TRUE]

\* a key that the base tree does not store was inserted twice; the first
\* Insert split an edge at the end of the key, the second returned the
\* value of the first
C13_Witness ==
  /\ last.op = "insert" /\ ops = 2 /\ Len(txns) = 1 /\ txns[1].n = 2
  /\ last.key # <<>> /\ ~roots[1].ref[last.key].ok
  /\ last.ok /\ last.val = BaseVal + 1
  /\ \E n \in 1..Len(heap.nodes) :
       /\ heap.nodes[n].leaf.has /\ heap.nodes[n].leaf.key = last.key
       /\ heap.nodes[n].revision = txns[1].revision
       /\ Len(EdgesOf(heap, n)) = 1

\* C14: Delete(k) returns the value stored under k together with true when
\* k was stored, and nil and false when it was not; afterwards Get(k) on the
\* same transaction finds nothing.
C14_DeleteReturnsPrevious ==
  (last.op = "delete")
    => /\ [val |-> last.val, ok |-> last.ok] = last.was
       /\ ~last.was.ok => (last.val = NilVal /\ ~last.ok)
       /\ \A t \in 1..Len(txns) :
            \* the transaction that made the call
            txns[t].n >= 1 => Get(heap, txns[t].root, last.key) = Absent

\* a stored key was deleted, its value came back and the node it left
\* behind was merged with its only child
C14_Witness ==
  /\ last.op = "delete" /\ last.ok /\ last.val = BaseVal /\ last.merged
  /\ Len(txns) = 1 /\ txns[1].n >= 1
  /\ roots[1].ref[last.key].ok

\* a step is a Delete of a key that the transaction does not store
DeleteOfMissing == ops' = ops + 1 /\ last'.op = "delete" /\ ~last'.was.ok

\* C15: a Delete of a key that is not stored (no edge for the next byte, the
\* key ends or diverges inside an edge's prefix, the path ends at a node
\* without value) returns nil and false and leaves the tree as it was: the
\* transaction's root is the same node, and no node or edge array is
\* copied, allocated or modified.
C15_DeleteMissingChangesNothing ==
  [][DeleteOfMissing =>
       /\ last'.val = NilVal /\ ~last'.ok
       /\ heap' = heap
       /\ Len(txns') = Len(txns)
       /\ \A t \in 1..Len(txns) : txns'[t].root = txns[t].root]_vars

\* a Delete found nothing under a key that ends inside the tree: the key
\* is a proper prefix of a stored key
C15_Witness ==
  /\ last.op = "delete" /\ ~last.ok /\ last.key # <<>>
  /\ Len(txns) = 1 /\ txns[1].n >= 1
  /\ \E k \in Keys : /\ txns[1].ref[k].ok
                     /\ k # last.key /\ HasPrefix(k, last.key)

\* the only transaction made two calls: an Insert of a key its root did not
\* store, then a Delete that removed the inserted value
InsertedThenDeleted ==
  /\ Len(txns) = 1 /\ txns[1].n = 2 /\ ops = 2
  /\ last.op = "delete" /\ last.ok /\ last.val = BaseVal + 1
  /\ ~roots[txns[1].base].ref[last.key].ok

\* C16: Insert(k, v) of a key that is not stored followed by Delete(k)
\* gives a tree equal to the original in the prefix, the value and the edge
\* labels of every node: a split made by the Insert is undone by a merge.
C16_InsertDeleteRestores ==
  /\ InsertedThenDeleted =>
       Shape(heap, txns[1].root) = Shape(heap, roots[txns[1].base].node)
  /\ \A t \in 1..Len(txns) : \A k \in Keys :
       ~txns[t].ref[k].ok =>
         \E i \in {Insert(heap, txns[t], k, BaseVal)} :
           \E d \in {Delete(i.h, [txns[t] EXCEPT !.root = i.root], k)} :
             /\ d.ok /\ d.val = BaseVal
             /\ Shape(d.h, d.root) = Shape(heap, txns[t].root)

\* the Insert split an edge where the key diverges from a stored key, the
\* Delete undid the split by a merge, and the transaction's root is a copy
C16_Witness ==
  /\ InsertedThenDeleted /\ last.merged
  /\ txns[1].root # roots[txns[1].base].node
  /\ \E k \in Keys : /\ txns[1].ref[k].ok
                     /\ ~HasPrefix(k, last.key) /\ ~HasPrefix(last.key, k)
                     /\ longestPrefix(k, last.key) >= 2

\* C17: the empty key is a valid key, stored in the value slot of the root,
\* and a nil key is the empty key: Insert, Get and Delete with a nil or an
\* empty key address the same entry, on trees with and without other keys,
\* and Delete(nil) on a tree without that entry returns nil and false.
C17_NilKeyIsEmptyKey ==
  /\ \A t \in 1..Len(txns) :
       /\ TxnGet(heap, txns[t], NilKey) = txns[t].ref[<<>>]
       /\ TxnGet(heap, txns[t], Bytes(<<>>)) = txns[t].ref[<<>>]
       /\ txns[t].ref[<<>>] =
            [val |-> IF isLeaf(heap, txns[t].root)
                     THEN heap.nodes[txns[t].root].leaf.val ELSE NilVal,
             ok  |-> isLeaf(heap, txns[t].root)]
       /\ \A k \in Keys : TxnGet(heap, txns[t], Bytes(k)) = txns[t].ref[k]
  /\ \A i \in 1..Len(roots) :
       Get(heap, roots[i].node, NilKey.bytes) = roots[i].ref[<<>>]
  /\ (last.op # "none" /\ last.key = <<>>)
       => [val |-> last.val, ok |-> last.ok] = last.was

\* Insert(nil, v) on a tree with other keys returned the value that an
\* Insert with the empty key had stored, and Get(nil) now gives v
C17_Witness ==
  /\ last.op = "insert" /\ last.nilkey
  /\ last.ok /\ last.val = BaseVal
  /\ Len(txns) = 1 /\ txns[1].n = 1
  /\ Cardinality(StoredKeys(txns[1].ref)) >= 2
  /\ TxnGet(heap, txns[1], NilKey) = [val |-> ops + BaseVal, ok |-> TRUE]

\* the iterator is on a tree that stores no key
OnEmptyTree == it.kind # "none" /\ StoredKeys(ItRef) = {}

\* C18: iterating a tree that stores no key (a new tree, or one whose keys
\* were all deleted) is not an error: Next and Previous return nil at once,
\* directly, after SeekPrefix(p) and after SeekLowerBound(k), for every p
\* and k, the empty key included; no call fails.
C18_EmptyTreeIteration ==
  OnEmptyTree
    => /\ fault = "none"
       /\ it.out = <<>>
       /\ it.calls >= 1 => it.done

\* C18 for every call but SeekLowerBound of the empty key: the same holds
C18_EmptyTreeOtherCalls ==
  (OnEmptyTree /\ it.seeks # << <<"lower", <<>> >> >>)
    => /\ fault = "none"
       /\ it.out = <<>>
       /\ it.calls >= 1 => it.done

\* C18 on a tree emptied by Delete: no call fails
C18_EmptiedTreeNoFault ==
  (OnEmptyTree /\ StoredKeys(roots[1].ref) # {}) => fault = "none"

\* Next and Previous were called on an empty tree, new or emptied
C18_Reached ==
  /\ OnEmptyTree /\ it.calls >= 1 /\ it.done /\ Len(it.seeks) = 1
  /\ StoredKeys(roots[1].ref) # {}

\* a step in which the caller overwrites the buffer of the key it inserted
Overwritten == last.op = "insert" /\ last'.op = "overwrite"

\* C19: Insert keeps no reference into the caller's key buffer: overwriting
\* the buffer after Insert has returned changes no node's prefix and no
\* result of Get or of an iteration.
C19_KeyBufferNotKept ==
  [][Overwritten =>
       /\ \A n \in 1..Len(heap.nodes) : heap'.nodes[n].prefix = heap.nodes[n].prefix
       /\ GetAll(heap', txns'[1].root) = GetAll(heap, txns[1].root)
       /\ Drain(heap', Iterator(txns'[1].root)) = Drain(heap, Iterator(txns[1].root))]_vars

\* C19, what the overwrite leaves alone: the values, the edges and the
\* revisions of all nodes, every node of the tree the transaction started
\* from, and, when the Insert replaced the value of a stored key, every
\* prefix and every Get
C19_RestUntouched ==
  [][Overwritten =>
       /\ heap'.arrs = heap.arrs
       /\ \A n \in 1..Len(heap.nodes) :
            /\ heap'.nodes[n].revision = heap.nodes[n].revision
            /\ heap'.nodes[n].edges = heap.nodes[n].edges
            /\ heap'.nodes[n].leaf.val = heap.nodes[n].leaf.val
            /\ heap'.nodes[n].leaf.has = heap.nodes[n].leaf.has
       /\ \A i \in 1..Len(roots) :
            CopyTree(heap', roots[i].node, <<>>) = CopyTree(heap, roots[i].node, <<>>)
       /\ last.was.ok =>
            /\ \A n \in 1..Len(heap.nodes) :
                 heap'.nodes[n].prefix = heap.nodes[n].prefix
            /\ GetAll(heap', txns'[1].root) = GetAll(heap, txns[1].root)]_vars

\* a transaction and the clone made of it (or the other way round)
Twins(t, u) == t # u /\ txns[t].twin = txns[u].id /\ txns[u].twin = txns[t].id

\* the nodes a transaction writes in place: those of its tree that carry
\* its revision
Owned(t) ==
  {n \in NodesOf(heap, txns[t].root) : heap.nodes[n].revision = txns[t].revision}

\* C20: after t2 = t1.Clone() the two transactions stamp nodes with
\* different revisions (t1.revision # t2.revision), so that a node stamped by
\* one is never taken as owned by the other.
C20_RevisionsDiffer ==
  \A t, u \in 1..Len(txns) :
    Twins(t, u) =>
      /\ txns[t].revision # txns[u].revision
      /\ Owned(t) \cap NodesOf(heap, txns[u].root) = {}

\* C20, amended: the two transactions carry the same revision, which is
\* above the revision of every node they share; a node one of them stamps
\* is in the tree of that one only, so it is never owned by the other.
C20_ClonesOwnNothingShared ==
  \A t, u \in 1..Len(txns) :
    Twins(t, u) =>
      /\ txns[t].revision = txns[u].revision
      /\ \A n \in NodesOf(heap, txns[t].root) \cap NodesOf(heap, txns[u].root) :
           heap.nodes[n].revision < txns[t].revision
      /\ Owned(t) \cap NodesOf(heap, txns[u].root) = {}

\* a transaction that had written was cloned, then both wrote: each owns
\* its root, and they still share a node
C20_Witness ==
  \E t, u \in 1..Len(txns) :
    /\ Twins(t, u)
    /\ txns[t].root \in Owned(t) /\ txns[u].root \in Owned(u)
    /\ NodesOf(heap, txns[t].root) \cap NodesOf(heap, txns[u].root) # {}
    /\ txns[t].ref # txns[u].ref

\* C21: presence is separate from the value: a key inserted with the nil
\* value is reported present by Get, a second Insert or a Delete of it
\* reports a previous entry, and a key never inserted is reported absent.
C21_PresenceApartFromValue ==
  /\ \A t \in 1..Len(txns) : \A k \in Keys :
       Get(heap, txns[t].root, k) = txns[t].ref[k]
  /\ \A i \in 1..Len(roots) : \A k \in Keys :
       Get(heap, roots[i].node, k) = roots[i].ref[k]
  /\ last.op # "none" => (last.ok = last.was.ok /\ last.val = last.was.val)

\* a key stored with the nil value was inserted again: the call reported a
\* previous entry whose value is nil, and a key never inserted is absent
C21_Witness ==
  /\ last.op = "insert" /\ last.ok /\ last.val = NilVal
  /\ Len(txns) = 1 /\ txns[1].n = 2
  /\ ~roots[1].ref[last.key].ok
  /\ Get(heap, txns[1].root, last.key).ok
  /\ \E k \in Keys : ~Get(heap, txns[1].root, k).ok

\* ---- the shape of the trees
\* the roots in use: those of the open transactions and those committed
LiveRoots ==
  {txns[t].root : t \in 1..Len(txns)} \cup {roots[i].node : i \in 1..Len(roots)}

\* the nodes reachable from a root in use
LiveNodes == UNION {NodesOf(heap, r) : r \in LiveRoots}

\* C23: edge ordering: in every node reachable from a transaction's root or
\* from a committed root, after any sequence of Insert, Delete, Clone and
\* Commit, the edge labels are strictly ascending, so no two edges of a node
\* carry the same label.
C23_EdgesAscending ==
  \A n \in LiveNodes :
    \A i, j \in 1..Len(EdgesOf(heap, n)) :
      i < j => EdgesOf(heap, n)[i].label < EdgesOf(heap, n)[j].label

\* after a Clone, an Insert put the edge to its new leaf in front of an edge
\* with a larger label
C23_Witness ==
  /\ last.op = "insert" /\ ~last.ok
  /\ \E t, u \in 1..Len(txns) : Twins(t, u)
  /\ \E n \in LiveNodes :
       /\ Len(EdgesOf(heap, n)) = 2
       /\ heap.nodes[EdgesOf(heap, n)[1].node].leaf.has
       /\ heap.nodes[EdgesOf(heap, n)[1].node].leaf.key = last.key
       /\ heap.nodes[EdgesOf(heap, n)[1].node].edges.len = 0

\* C24: edge-label consistency: in every reachable root, every edge
\* (l, child) leads to a child with a non-empty prefix whose first byte is l,
\* also after an edge split (the trimmed old child, the new leaf) and after
\* a node was merged with its only child.
C24_LabelIsFirstByte ==
  \A n \in LiveNodes :
    \A i \in 1..Len(EdgesOf(heap, n)) :
      LET e == EdgesOf(heap, n)[i]
      IN /\ e.node # 0
         /\ heap.nodes[e.node].prefix # <<>>
         /\ heap.nodes[e.node].prefix[1] = e.label

\* the tree held one key; an Insert split its edge, then the Delete of the
\* first key merged the split node with the new leaf
C24_Witness ==
  /\ Cardinality(StoredKeys(roots[1].ref)) = 1
  /\ last.op = "delete" /\ last.ok /\ last.merged
  /\ Len(txns) = 1 /\ txns[1].n = 2
  /\ Cardinality(StoredKeys(txns[1].ref)) = 1
  /\ \E k \in StoredKeys(txns[1].ref) :
       /\ longestPrefix(k, last.key) >= 1
       /\ ~HasPrefix(k, last.key) /\ ~HasPrefix(last.key, k)

\* C25: prefix compaction: in every reachable root, after any sequence of
\* Insert and Delete, no node other than a root has exactly one edge and no
\* value; a Delete that would leave such a node merges it with its child.
C25_NoSingleEdgeNode ==
  \A n \in LiveNodes \ LiveRoots :
    ~(heap.nodes[n].edges.len = 1 /\ ~heap.nodes[n].leaf.has)

\* the value of a node with one child was deleted, the child has edges of
\* its own, and the node was merged with it
C25_Witness ==
  /\ last.op = "delete" /\ last.ok /\ last.merged
  /\ Len(txns) = 1 /\ txns[1].n >= 1
  /\ last.key # <<>>
  /\ Cardinality({k \in StoredKeys(txns[1].ref) : HasPrefix(k, last.key)}) >= 2
  /\ \A k \in StoredKeys(txns[1].ref) : Len(k) > 0 => HasPrefix(k, last.key)

\* C26: no empty nodes: in every reachable root, a node without value and
\* without edges is the root of a tree that stores nothing; a Delete that
\* empties a child removes the edge to it from its parent.
C26_NoEmptyNode ==
  \A n \in LiveNodes :
    (~heap.nodes[n].leaf.has /\ heap.nodes[n].edges.len = 0)
      => /\ n \in LiveRoots
         /\ \A k \in Keys : ~Get(heap, n, k).ok

\* the value of a node without edges was deleted and the edge to it was
\* removed from a parent that keeps other edges or a value
C26_Witness ==
  /\ last.op = "delete" /\ last.ok /\ ~last.merged
  /\ Len(txns) = 1 /\ txns[1].n >= 1
  /\ last.key # <<>>
  /\ \A k \in StoredKeys(txns[1].ref) : ~HasPrefix(k, last.key)
  /\ \E k \in StoredKeys(roots[txns[1].base].ref) :
       k # last.key /\ HasPrefix(last.key, k) /\ Len(k) = Len(last.key) - 1

\* the tree at root r stores the keys of ref at the paths that spell them
KeysArePaths(r, ref) ==
  LET ps == PathsOf(heap, r, <<>>)
  IN /\ \A p \in ps :
          heap.nodes[p.node].leaf.has =>
            /\ heap.nodes[p.node].leaf.key = p.key
            /\ p.key \in Keys /\ ref[p.key].ok
            /\ ref[p.key].val = heap.nodes[p.node].leaf.val
     /\ \A k \in StoredKeys(ref) :
          \E p \in ps : p.key = k /\ heap.nodes[p.node].leaf.has
     /\ ref[<<>>].ok = heap.nodes[r].leaf.has

\* C27: key/path agreement: in every reachable root, the stored keys are
\* exactly the concatenations of the node prefixes along the paths from the
\* root to the nodes that carry a value, and the key recorded in a node's
\* leaf is that concatenation, also after edge splits and child merges; the
\* empty key is the value of the root.
C27_KeysArePaths ==
  /\ \A t \in 1..Len(txns) : KeysArePaths(txns[t].root, txns[t].ref)
  /\ \A i \in 1..Len(roots) : KeysArePaths(roots[i].node, roots[i].ref)

\* a transaction whose Delete merged a node made an Insert that split an
\* edge: the new leaf hangs below a fresh node with two edges and no value
C27_Witness ==
  /\ last.op = "insert" /\ ~last.was.ok
  /\ Len(txns) = 1 /\ txns[1].merged
  /\ \E p \in PathsOf(heap, txns[1].root, <<>>) :
       /\ p.node # txns[1].root
       /\ ~heap.nodes[p.node].leaf.has
       /\ heap.nodes[p.node].edges.len = 2
       /\ \E i \in 1..2 :
            heap.nodes[EdgesOf(heap, p.node)[i].node].leaf.key = last.key

\* what a reader of node n sees: its fields and the edges of its slice
NodeView(h, n) == [node |-> h.nodes[n], edges |-> EdgesOf(h, n)]

\* no node a transaction may write in place is in the tree of another
\* transaction or of a committed root (its base root among them)
OwnedExclusively ==
  \A t \in 1..Len(txns) :
    /\ \A u \in 1..Len(txns) :
         u # t => Owned(t) \cap NodesOf(heap, txns[u].root) = {}
    /\ \A i \in 1..Len(roots) : Owned(t) \cap NodesOf(heap, roots[i].node) = {}

\* a step changes no node that exists, but the nodes owned by a transaction
CopiedBeforeChanged ==
  \A n \in 1..Len(heap.nodes) :
    NodeView(heap', n) # NodeView(heap, n) => \E t \in 1..Len(txns) : n \in Owned(t)

\* C28: exclusive ownership: with transactions opened by NewTxn on committed
\* roots and by Clone (a committed transaction is not used again), a node a
\* transaction may write in place, that is a node of its tree that carries
\* its revision, is in the tree of no other transaction, of no committed
\* root and not of its base root; every other node is left as it is by every
\* step: it is copied by writeNode and the copy is changed.
C28_ExclusiveOwnership == []OwnedExclusively /\ [][CopiedBeforeChanged]_vars

\* two transactions opened on the same root carry the same revision, both
\* have written and own nodes, and their trees still share a node
C28_Witness ==
  /\ \E t, u \in 1..Len(txns) :
       /\ t # u /\ ~Twins(t, u)
       /\ txns[t].revision = txns[u].revision
       /\ Owned(t) # {} /\ Owned(u) # {}
       /\ NodesOf(heap, txns[t].root) \cap NodesOf(heap, txns[u].root) # {}

\* what node n holds, whatever its revision
Content(h, n) ==
  [prefix |-> h.nodes[n].prefix, leaf |-> h.nodes[n].leaf, edges |-> EdgesOf(h, n)]

\* the step of transaction t rewrote a spine and shared the rest: a node of
\* the new tree is kept when it is a node of the old tree and reads as
\* before; every node from which a node that is not kept is reached carries
\* the revision of t, and no node that is not kept is a mere copy of a node
\* of the old tree
SpineRewritten(t) ==
  LET old == NodesOf(heap, txns[t].root)
      new == NodesOf(heap', txns'[t].root)
      sites == {n \in new : ~(n \in old /\ NodeView(heap', n) = NodeView(heap, n))}
  IN /\ sites # {}
     /\ \A n \in new :
          (\E m \in sites : m \in NodesOf(heap', n)) =>
             heap'.nodes[n].revision = txns[t].revision
     /\ \A m \in sites : \A o \in old : Content(heap', m) # Content(heap, o)

\* C29: spine rewriting with structural sharing: after an Insert, or a
\* Delete that removes a key, in transaction t, every node on the way from
\* the root of t to a node the call wrote carries the revision of t, and
\* every other node of the tree is the physical node it was before the call,
\* unchanged and shared with the previous root: nothing but the written
\* nodes is copied.
C29_SpineRewrittenRestShared ==
  [][\A t \in 1..Len(txns) :
       ( /\ Len(txns') = Len(txns)
         /\ txns'[t].n = txns[t].n + 1
         /\ \/ last'.op = "insert"
            \/ last'.op = "delete" /\ last'.was.ok )
       => SpineRewritten(t)]_vars

\* a Delete that merged a node, in a transaction on a committed root: the
\* root is a copy with the revision of the transaction, and the tree still
\* holds nodes of the base root
C29_Witness ==
  \E t \in 1..Len(txns) :
    /\ last.op = "delete" /\ last.was.ok /\ last.merged
    /\ txns[t].n >= 1
    /\ txns[t].root \in Owned(t)
    /\ txns[t].root # roots[txns[t].base].node
    /\ NodesOf(heap, txns[t].root) \cap NodesOf(heap, roots[txns[t].base].node) # {}

\* C30: the fail-fast of replaceEdge ("replacing missing edge") is not
\* reached: in every sequence of Insert, Delete, Clone and Commit on trees
\* built by these calls, Insert calls replaceEdge with a label the node has,
\* so no call has aborted and no Insert of any key would abort next.
C30_ReplaceEdgeFindsLabel ==
  /\ fault = "none"
  /\ \A t \in 1..Len(txns) : \A k \in Keys :
       Insert(heap, txns[t], k, NilVal).fault = "none"

\* the first Insert of a transaction split an edge, so it called
\* replaceEdge: its key is new and sits in a node that has an edge
C30_Witness ==
  \E t \in 1..Len(txns) :
    /\ last.op = "insert" /\ ~last.was.ok /\ txns[t].n = 1
    /\ \E m \in Owned(t) :
         /\ m # txns[t].root
         /\ heap.nodes[m].leaf.has /\ heap.nodes[m].leaf.key = last.key
         /\ heap.nodes[m].edges.len = 1

\* C31: the root is never merged with a child: the root of every
\* transaction and every committed root has the empty prefix, also when a
\* Delete has left it with no value and exactly one edge, so that Get, which
\* starts at the root without consuming its prefix, finds exactly the keys
\* that are stored.
C31_RootNeverMerged ==
  /\ \A r \in LiveRoots : heap.nodes[r].prefix = <<>>
  /\ \A t \in 1..Len(txns) : GetAll(heap, txns[t].root) = txns[t].ref
  /\ \A i \in 1..Len(roots) : GetAll(heap, roots[i].node) = roots[i].ref

\* a Delete removed a key and left the root of the transaction, a copy,
\* with no value and exactly one edge
C31_Witness ==
  \E t \in 1..Len(txns) :
    /\ last.op = "delete" /\ last.was.ok
    /\ txns[t].root \in Owned(t)
    /\ ~heap.nodes[txns[t].root].leaf.has
    /\ heap.nodes[txns[t].root].edges.len = 1
    /\ StoredKeys(txns[t].ref) # {}

\* no node of the tree at r carries a revision above that of r
RootIsNewest(r) ==
  \A n \in NodesOf(heap, r) : heap.nodes[n].revision <= heap.nodes[r].revision

\* the revisions are ordered: New, the roots, NewTxn on a committed root,
\* and the open transactions against their base
RevisionsOrdered ==
  /\ heap.nodes[New.id].revision = 0
  /\ \A r \in LiveRoots : RootIsNewest(r)
  /\ \A i \in 1..Len(roots) :
       \A n \in NodesOf(heap, roots[i].node) :
         NewTxn(heap, roots[i].node).revision > heap.nodes[n].revision
  /\ \A t \in 1..Len(txns) :
       /\ txns[t].revision > heap.nodes[roots[txns[t].base].node].revision
       /\ txns[t].revision >= heap.nodes[txns[t].root].revision

\* a transaction that is still open after the step has not lost revision
RevisionKept ==
  \A t \in 1..Len(txns) : \A u \in 1..Len(txns') :
    txns'[u].id = txns[t].id => txns'[u].revision >= txns[t].revision

\* C32: revision ordering: the root returned by New has revision 0; in
\* every root obtainable from New, Commit or Txn.Root no reachable node has
\* a revision above the root's, so NewTxn(root), with root.revision + 1, is
\* strictly above every node reachable from its base; the revision of a
\* transaction never decreases.
C32_RevisionOrdering == []RevisionsOrdered /\ [][RevisionKept]_vars

\* a transaction was cloned after it had written and wrote again: its
\* revision is two above its base root's, its root carries it, and its tree
\* still holds older nodes
C32_Witness ==
  \E t \in 1..Len(txns) :
    /\ txns[t].twin # 0
    /\ txns[t].revision >= heap.nodes[roots[txns[t].base].node].revision + 2
    /\ heap.nodes[txns[t].root].revision = txns[t].revision
    /\ \E n \in NodesOf(heap, txns[t].root) :
         heap.nodes[n].revision < txns[t].revision - 1

\* the tree a key-value map stands for, as Shape gives it: one node for the
\* empty key, one per stored key and one per point where two stored keys
\* part, each named by the bytes from the root to its end
CanonNodes(ref) ==
  {<<>>} \cup StoredKeys(ref)
    \cup {q \in Keys : \E a, b \in StoredKeys(ref) :
                     /\ HasPrefix(a, q) /\ HasPrefix(b, q)
                     /\ Len(a) > Len(q) /\ Len(b) > Len(q)
                     /\ a[Len(q) + 1] # b[Len(q) + 1]}

\* the node above q: the longest proper prefix of q that is a node
CanonParent(N, q) ==
  CHOOSE p \in N :
    /\ p # q /\ HasPrefix(q, p)
    /\ \A o \in N : (o # q /\ HasPrefix(q, o)) => Len(o) <= Len(p)

\* the edge labels from the root down to q
RECURSIVE CanonPath(_, _)
CanonPath(N, q) ==
  IF q = <<>> THEN <<>>
  ELSE LET p == CanonParent(N, q) IN Append(CanonPath(N, p), q[Len(p) + 1])

CanonLabels(N, q) ==
  LET ls == {c[Len(q) + 1] : c \in {d \in N : d # <<>> /\ d # q /\ CanonParent(N, d) = q}}
  IN SortKeys({<<l>> : l \in ls})

Canon(ref) ==
  LET N == CanonNodes(ref)
  IN {[path |-> CanonPath(N, q),
       leaf |-> IF ref[q].ok THEN leafNode(q, ref[q].val) ELSE NoLeaf,
       prefix |-> IF q = <<>> THEN <<>> ELSE Drop(q, Len(CanonParent(N, q))),
       labels |-> LET ks == CanonLabels(N, q) IN [i \in 1..Len(ks) |-> ks[i][1]]]
        : q \in N}

\* the roots in use, each with the map it stores
LiveTrees ==
  {[node |-> txns[t].root, ref |-> txns[t].ref] : t \in 1..Len(txns)}
    \cup {[node |-> roots[i].node, ref |-> roots[i].ref] : i \in 1..Len(roots)}

\* C33: history independence: the shape of a tree is a function of the
\* key-value map it stores: every root, whatever Inserts and Deletes in one
\* or several transactions led to it, has the prefixes, values and edge
\* labels that the map alone determines, so two roots that store the same
\* map are equal node by node, revisions aside.
C33_ShapeFromMapAlone ==
  /\ \A a \in LiveTrees : Shape(heap, a.node) = Canon(a.ref)
  /\ \A a, b \in LiveTrees : a.ref = b.ref => Shape(heap, a.node) = Shape(heap, b.node)

\* two different roots store the same non-empty map: a transaction has
\* inserted a key and removed it again, with a merge, and its root is a copy
C33_Witness ==
  \E a, b \in LiveTrees :
    /\ a.node # b.node /\ a.ref = b.ref
    /\ Cardinality(StoredKeys(a.ref)) >= 2
    /\ last.op = "delete" /\ last.was.ok /\ last.merged

\* SeekLowerBound on the fresh iterator came to a node whose prefix is
\* below the part of the search key it is compared with
SoughtSmaller ==
  /\ it.kind = "fwd" /\ SoughtOnce("lower")
  /\ SeekLowerBoundExit(heap, 0, it.root, it.seeks[1][2], <<>>).branch = "smaller"

C35_ExhaustionIsPermanent ==
  it.done =>
    /\ it.kind = "fwd" => IterNext(heap, it.i).node = 0
    /\ it.kind = "rev" =>
         Previous(heap, [i |-> it.i, expandedParents |-> it.expandedParents]).node = 0

\* an iterator that still holds its node has returned keys, then absent,
\* and was called once more
C35_Witness ==
  /\ it.kind \in {"fwd", "rev"}
  /\ it.done /\ it.extra >= 1
  /\ Len(it.out) >= 2
  /\ it.i.node # 0

\* C36: re-seeking a reverse iterator restarts it: on a reverse iterator on
\* which Previous has been called any number of times, SeekPrefix(p) and
\* then Previous until absent yields the same sequence as on a fresh reverse
\* iterator sought with the same prefix: expandedParents carries nothing
\* over from the earlier traversal.
C36_ReverseReseekRestarts ==
  (it.kind = "rev" /\ SoughtOnce("prefix") /\ it.done)
    => it.out = DrainBack(heap, ReverseSeekPrefix(heap, NewReverseIterator(it.root),
                                                  it.seeks[1][2]).ri)

\* the first seek on the iterator was a SeekPrefix that matched nothing
FirstPrefixFailed ==
  /\ Len(it.seeks) >= 1 /\ it.seeks[1][1] = "prefix"
  /\ SeekPrefix(heap, Iterator(it.root), it.seeks[1][2]).it.node = 0

\* the iterator had no node when it was sought the second time
SoughtWhenEmptied ==
  /\ it.kind # "none" /\ Len(it.seeks) = 2
  /\ FirstPrefixFailed \/ it.seeks[1][1] = "lower"

\* C37: seeking an emptied iterator is harmless: SeekPrefix or
\* SeekLowerBound called on an iterator whose node is absent, after a
\* SeekPrefix that matched nothing or after any SeekLowerBound, completes
\* without failing, and an iterator emptied by a failed SeekPrefix stays
\* empty: Next returns absent.
C37_SeekOnEmptiedIsHarmless ==
  /\ SoughtWhenEmptied => fault = "none"
  /\ (it.kind # "none" /\ FirstPrefixFailed /\ it.done) => it.out = <<>>

\* C38: every operation runs to completion: no Get, Insert, Delete,
\* SeekPrefix or SeekLowerBound call on a finite tree stops the program
\* short of its return, an iterator over a tree with N stored keys returns
\* at most N values, and repeated Next (Previous) calls come to return
\* absent.
C38_EveryCallCompletes ==
  /\ [](fault = "none")
  /\ [](it.kind # "none" => Len(it.out) <= Cardinality(StoredKeys(ItRef)))
  /\ (it.kind # "none") ~> it.done

====
